---- MODULE Spec2Model ----
(***************************************************************************)
(* EDS authentication of the Akimat request-tracking backend:              *)
(* signature verification and identity extraction through NCANode, the    *)
(* find-or-create of the user by IIN, the login endpoint, the session      *)
(* token issuer, the token validators and the user lifecycle.              *)
(*                                                                         *)
(* Five specifications share the variables:                                *)
(*   Spec       concurrent POST /auth/eds/login requests on one user store *)
(*   SpecNCA    the two NCANode wrappers applied to every service outcome  *)
(*   SpecToken  create_access_token, the passing of time and validation    *)
(*   SpecLife   the user lifecycle: EDS login, email registration and      *)
(*              login, registration completion, profile update and        *)
(*              deactivation, by concurrent clients                        *)
(*   SpecRequests  the request endpoints: create, list, read, update, and  *)
(*              the reading of comments and attachments, by role           *)
(***************************************************************************)
EXTENDS Integers, Sequences, FiniteSets, TLC

VARIABLES
    users,    \* the users table: a sequence of rows, a row's id is its index
    login,    \* login[p]: the state of EDS login request p
    now,      \* the clock, in minutes (datetime.utcnow())
    tok,      \* SpecToken: the last create_access_token call and what it gave
    val,      \* SpecToken: the last token validation and what it gave
    svc,      \* SpecNCA: the outcome of the current NCANode call
    out,      \* SpecNCA: what the wrapper applied to svc gave
    acct,     \* SpecLife: acct[c], the state of the request of client c
    requests, \* SpecRequests: the requests table, a row's id is its index
    call      \* SpecRequests: the last call of a request endpoint, answered

vars == <<users, login, now, tok, val, svc, out, acct, requests, call>>

----------------------------------------------------------------------------
(* Bounds of the model. *)

NumLogins == 2      \* concurrent EDS login requests
NumClients == 2     \* concurrent clients of the account endpoints
MaxTime == 36       \* the clock runs from 0 to MaxTime minutes

(* Program constants. *)

ACCESS_TOKEN_EXPIRE_MINUTES == 30
FALLBACK_EXPIRE_MINUTES == 5

NULL == "NULL"                       \* Python None / SQL NULL
IINSeq == <<"123456789012", "880101300999">>
IINs == { IINSeq[k] : k \in 1..Len(IINSeq) }
SECRET_KEY == "SECRET_KEY"
Procs == 1..NumLogins
Clients == 1..NumClients

----------------------------------------------------------------------------
(* NCANode: every outcome of one POST /xml/verify.                         *)
(* transport: the call timed out, failed otherwise, answered with a body   *)
(* that is no JSON, with JSON that is no object, or with a JSON object.    *)
(* The fields of the object are JSON values written as strings; "absent"   *)
(* is a key that is not there, "null" a key whose value is null.           *)

Response(t, s, g, f, v, j, i) ==
    [transport |-> t, status |-> s, signers |-> g, first |-> f, valid |-> v,
     subject |-> j, iin |-> i]

Statuses == {"200", "400", "absent"}
ValidFlags == {"true", "false", "absent", "null"}

Responses ==
    UNION {
      \* no JSON object came back
      { Response(t, "absent", "absent", "absent", "absent", "absent", "absent") :
          t \in {"timeout", "connection_error", "not_json", "not_object"} },
      \* an object with no usable signers list
      { Response("object", s, g, "absent", "absent", "absent", "absent") :
          s \in Statuses, g \in {"absent", "null", "empty"} },
      \* a list whose first entry is no object
      { Response("object", s, "list", "not_object", "absent", "absent", "absent") :
          s \in Statuses },
      \* a list whose first entry is an object without a subject object
      { Response("object", s, "list", "object", v, j, "absent") :
          s \in Statuses, v \in ValidFlags, j \in {"absent", "null"} },
      \* a list whose first entry is an object with a subject object
      { Response("object", s, "list", "object", v, "object", i) :
          s \in Statuses, v \in ValidFlags, i \in {"absent", "null", ""} \cup IINs } }

(* The result of a Python call: a value returned or an exception raised. *)
Return(v) == [kind |-> "return", value |-> v]
Raise(e) == [kind |-> "raise", value |-> e]

(* requests.post(...) followed by response.json() *)
PostAndParse(r) ==
    CASE r.transport = "timeout" -> Raise("requests.Timeout")
      [] r.transport = "connection_error" -> Raise("requests.ConnectionError")
      [] r.transport = "not_json" -> Raise("JSONDecodeError")
      [] OTHER -> Return(r)

(* result.get("signers", default)[0] *)
FirstSigner(r, default) ==
    CASE r.transport = "not_object" -> Raise("AttributeError")
      [] r.signers = "absent" -> default
      [] r.signers = "null" -> Raise("TypeError")
      [] r.signers = "empty" -> Raise("IndexError")
      [] OTHER -> Return(r.first)

(* The try block of verify_xml_signature. *)
verify_try(r) ==
    LET posted == PostAndParse(r)
        signer == FirstSigner(r, Return("empty_object"))
    IN  CASE posted.kind = "raise" -> posted
          [] r.transport = "not_object" -> Raise("AttributeError")
          [] r.status /= "200" -> Return(FALSE)
          [] signer.kind = "raise" -> signer
          [] signer.value = "not_object" -> Raise("AttributeError")
          [] signer.value = "empty_object" -> Return(FALSE)
          [] OTHER -> Return(r.valid = "true")

verify_xml_signature_NoCatchAll(r) ==
    LET t == verify_try(r)
    IN  IF t.kind = "raise" /\ t.value = "requests.Timeout" THEN Return(FALSE) ELSE t

verify_xml_signature(r) ==
    LET t == verify_try(r)
    IN  CASE t.kind = "raise" /\ t.value = "requests.Timeout" -> Return(FALSE)
          [] t.kind = "raise" -> Return(FALSE)
          [] OTHER -> t

(* The try block of extract_user_info_from_xml: the user_info dictionary,  *)
(* written as the value of its "iin" key, "no_key" for the empty dict.     *)
extract_try(r) ==
    LET posted == PostAndParse(r)
        signer == FirstSigner(r, Raise("KeyError"))
    IN  CASE posted.kind = "raise" -> posted
          [] r.transport = "not_object" -> Raise("AttributeError")
          [] r.status /= "200" -> Return("no_key")
          [] signer.kind = "raise" -> signer
          [] signer.value = "not_object" -> Raise("AttributeError")
          [] r.subject = "null" -> Raise("AttributeError")
          [] r.subject = "absent" -> Return(NULL)
          [] r.iin \in {"absent", "null"} -> Return(NULL)
          [] OTHER -> Return(r.iin)

extract_user_info_from_xml_NoCatchAll(r) ==
    LET t == extract_try(r)
    IN  IF t.kind = "raise" /\ t.value = "requests.Timeout" THEN Return("no_key") ELSE t

extract_user_info_from_xml(r) ==
    LET t == extract_try(r)
    IN  CASE t.kind = "raise" /\ t.value = "requests.Timeout" -> Return("no_key")
          [] t.kind = "raise" -> Return("no_key")
          [] OTHER -> t

(* user_info.get("iin") *)
InfoIIN(info) == IF info = "no_key" THEN NULL ELSE info

(* Python truthiness of an optional string. *)
Truthy(s) == s /= NULL /\ s /= ""

----------------------------------------------------------------------------
(* The users table. *)

(* The row create_user_from_eds_data builds; role takes the column default. *)
PendingUser(iin) ==
    [iin |-> iin, email |-> NULL, full_name |-> NULL, hashed_password |-> NULL,
     is_active |-> TRUE, is_superuser |-> FALSE, status |-> "pending",
     role |-> "employee", phone_number |-> NULL, organization |-> NULL,
     position |-> NULL]

(* db.query(User).filter(User.iin == iin).first(): the id of the row, 0 for None. *)
get_user_by_iin(db, iin) ==
    LET hits == { k \in 1..Len(db) : db[k].iin = iin }
    IN  IF hits = {} THEN 0 ELSE CHOOSE k \in hits : \A h \in hits : k <= h

(* The unique index ix_users_iin: NULLs never collide. *)
IINTaken(db, iin) == iin /= NULL /\ \E k \in 1..Len(db) : db[k].iin = iin

(* The unique index on email. *)
EmailTaken(db, email) == email /= NULL /\ \E k \in 1..Len(db) : db[k].email = email

UniqueOK_NoIINIndex(db, row) == ~EmailTaken(db, row.email)

UniqueOK_NoEmailIndex(db, row) == ~IINTaken(db, row.iin)

(* Whether the table's unique indexes admit the row. *)
UniqueOK(db, row) == ~IINTaken(db, row.iin) /\ ~EmailTaken(db, row.email)

(* db.add(row); db.commit(): the new table, or the exception of the commit. *)
(* fault: the storage layer fails (connection lost, disk full, ...).       *)
db_insert(db, row, fault) ==
    CASE fault -> Raise("OperationalError")
      [] ~UniqueOK(db, row) -> Raise("IntegrityError")
      [] OTHER -> Return(Append(db, row))

----------------------------------------------------------------------------
(* Session tokens.  A token is its claims and the key that signed it.      *)

Token(iin, exp, error, key) == [iin |-> iin, exp |-> exp, error |-> error, key |-> key]

(* A Python dict with at most the key "iin". *)
Dict(iin) == [has_iin |-> TRUE, iin |-> iin]
EmptyDict == [has_iin |-> FALSE, iin |-> NULL]

(* expires_delta: {} is None, {d} is timedelta(minutes=d). *)
NoDelta == {}
Delta(d) == {d}
DeltaTruthy(delta) == \E d \in delta : d /= 0
DeltaMinutes(delta) == CHOOSE d \in delta : TRUE

(* What the signing library does in one create_access_token call: it      *)
(* signs, it fails once and signs the fallback payload, or it fails on     *)
(* both payloads, with a JWSError or with a TypeError.                     *)
SignFaults ==
    {"none", "encode_fails", "encode_and_fallback_fail", "encode_and_fallback_type_error"}

(* The faults that leave create_access_token without a token. *)
SignRaises == {"encode_and_fallback_fail", "encode_and_fallback_type_error"}

(* The expiry create_access_token computes at time t. *)
Expire(delta, t) ==
    IF DeltaTruthy(delta) THEN t + DeltaMinutes(delta) ELSE t + ACCESS_TOKEN_EXPIRE_MINUTES

create_access_token_DropsIIN(data, delta, t, fault) ==
    IF fault \in SignRaises
    THEN Raise(IF fault = "encode_and_fallback_type_error" THEN "TypeError" ELSE "JWSError")
    ELSE Return(Token(NULL, Expire(delta, t), fault /= "none", SECRET_KEY))

(* KZEDSAuthenticator.create_access_token at time t. *)
create_access_token(data, delta, t, fault) ==
    CASE fault = "none" ->
           Return(Token(IF data.has_iin THEN data.iin ELSE NULL,
                        Expire(delta, t), FALSE, SECRET_KEY))
      [] fault = "encode_fails" ->
           Return(Token(IF data.has_iin THEN data.iin ELSE NULL,
                        t + FALLBACK_EXPIRE_MINUTES, TRUE, SECRET_KEY))
      [] fault = "encode_and_fallback_type_error" -> Raise("TypeError")
      [] OTHER -> Raise("JWSError")

jwt_decode_ExpiresEarly(token, key, t) ==
    CASE token.key /= key -> Raise("JWTError")
      [] token.exp <= t -> Raise("ExpiredSignatureError")
      [] OTHER -> Return(token)

jwt_decode_NoSignatureCheck(token, key, t) ==
    IF token.exp < t THEN Raise("ExpiredSignatureError") ELSE Return(token)

(* jose.jwt.decode at time t: the signature, then the exp claim. *)
jwt_decode(token, key, t) ==
    CASE token.key /= key -> Raise("JWTError")
      [] token.exp < t -> Raise("ExpiredSignatureError")
      [] OTHER -> Return(token)

(* The outcome of a dependency: the user's id, or the HTTPException raised. *)
Resolved(id) == [status |-> 200, detail |-> "", user |-> id]
HTTPError(code, detail) == [status |-> code, detail |-> detail, user |-> 0]

(* kz_eds.get_current_user_from_token; bearer is the set holding the token *)
(* of the Authorization header, empty without one.                        *)
get_current_user_from_token(bearer, db, t) ==
    IF bearer = {} THEN HTTPError(401, "Not authenticated")
    ELSE LET token == CHOOSE x \in bearer : TRUE
             payload == jwt_decode(token, SECRET_KEY, t)
         IN  CASE payload.kind = "raise" ->
                    HTTPError(401, "Could not validate credentials")
               [] payload.value.iin = NULL ->
                    HTTPError(401, "Could not validate credentials")
               [] get_user_by_iin(db, payload.value.iin) = 0 ->
                    HTTPError(401, "Could not validate credentials")
               [] OTHER -> Resolved(get_user_by_iin(db, payload.value.iin))

(* deps.get_current_user; OAuth2PasswordBearer answers 401 without a token. *)
get_current_user(db, bearer, t) ==
    IF bearer = {} THEN HTTPError(401, "Not authenticated")
    ELSE LET token == CHOOSE x \in bearer : TRUE
             payload == jwt_decode(token, SECRET_KEY, t)
         IN  CASE payload.kind = "raise" ->
                    HTTPError(401, "Could not validate credentials")
               [] payload.value.iin = NULL ->
                    HTTPError(401, "Could not validate credentials - missing IIN")
               [] get_user_by_iin(db, payload.value.iin) = 0 ->
                    HTTPError(404, "User not found")
               [] OTHER -> Resolved(get_user_by_iin(db, payload.value.iin))

(* deps.get_current_active_user: get_current_user, then the is_active flag. *)
get_current_active_user(db, bearer, t) ==
    LET current_user == get_current_user(db, bearer, t)
    IN  CASE current_user.status /= 200 -> current_user
          [] ~db[current_user.user].is_active -> HTTPError(400, "Inactive user")
          [] OTHER -> current_user

----------------------------------------------------------------------------
(* POST /auth/eds/login. *)

(* What authenticate_eds returns: None, or the user with the login status. *)
(* user holds the ORM object: the row as read or refreshed, with its id.   *)
AuthNone == [login_status |-> "None", user_id |-> 0, user |-> <<>>]
AuthResult(id, row, st) == [login_status |-> st, user_id |-> id, user |-> <<row>>]

(* An HTTP response; body holds the TokenResponse of a 200. *)
NoResponse == [code |-> 0, detail |-> <<>>, headers |-> "", body |-> {}]
HTTPException(code, detail, headers) ==
    [code |-> code, detail |-> detail, headers |-> headers, body |-> {}]
TokenResponse(token, is_new_user, role) ==
    [code |-> 200, detail |-> <<>>, headers |-> "",
     body |-> {[access_token |-> token, token_type |-> "bearer",
                is_new_user |-> is_new_user, role |-> role]}]

Unauthorized ==
    HTTPException(401, <<"Invalid EDS signature or user information">>,
                  "WWW-Authenticate: Bearer")

login_respond_NewUserWhenAuthenticated(auth, t, fault) ==
    IF auth = AuthNone THEN Unauthorized
    ELSE LET user == auth.user[1]
             made == create_access_token(Dict(user.iin), NoDelta, t, fault)
         IN  IF made.kind = "raise"
             THEN HTTPException(500,
                    <<"An unexpected error occurred during authentication", made.value>>, "")
             ELSE TokenResponse(made.value,
                                auth.login_status = "AUTHENTICATED", user.role)

(* login_with_eds from the return of authenticate_eds on. *)
login_respond(auth, t, fault) ==
    IF auth = AuthNone THEN Unauthorized
    ELSE LET user == auth.user[1]
             made == create_access_token(Dict(user.iin), NoDelta, t, fault)
         IN  IF made.kind = "raise"
             THEN HTTPException(500,
                    <<"An unexpected error occurred during authentication", made.value>>, "")
             ELSE TokenResponse(made.value,
                                auth.login_status = "REGISTRATION_REQUIRED", user.role)

(* The state of one request: where it stands (pc), what it was sent (xml),  *)
(* what it has learnt (verified, iin, found: the status of the user found, *)
(* insert: how the commit ended, sign: what the signing library did,       *)
(* signer: whether the response the IIN was read from reported its first   *)
(* signer valid),                                                          *)
(* which collaborators it has called (calls), what authenticate_eds        *)
(* returned (auth) and what the endpoint answered (resp).                  *)
IdleLogin ==
    [pc |-> "idle", xml |-> "", verified |-> "unset", iin |-> NULL, signer |-> "unset",
     found |-> "unset", insert |-> "unset", sign |-> "unset", calls |-> {},
     auth |-> [login_status |-> "unset", user_id |-> 0, user |-> <<>>],
     resp |-> NoResponse]

(* authenticate_eds returns None and the endpoint answers. *)
Reject(l) ==
    [l EXCEPT !.pc = "done", !.auth = AuthNone,
              !.resp = login_respond(AuthNone, 0, "none")]

(* authenticate_eds returns a user and the endpoint answers at time t. *)
Finish(l, auth, t, fault) ==
    [l EXCEPT !.pc = "done", !.auth = auth, !.sign = fault,
              !.calls = @ \cup {"create_access_token"},
              !.resp = login_respond(auth, t, fault)]

(* The request arrives: the check of signed_xml. *)
eds_request(l, xml) ==
    IF xml = ""
    THEN [l EXCEPT !.pc = "done", !.xml = xml,
                   !.resp = HTTPException(400, <<"Missing signed XML document">>, "")]
    ELSE [l EXCEPT !.pc = "verify", !.xml = xml]

eds_verify_IgnoresResult(l, r) ==
    [l EXCEPT !.pc = "extract", !.calls = @ \cup {"verify"},
              !.verified = IF verify_xml_signature(r).kind = "return"
                              /\ verify_xml_signature(r).value
                           THEN "true" ELSE "false"]

(* authenticate_eds, the verification; r is what NCANode answers. *)
eds_verify(l, r) ==
    LET ok == verify_xml_signature(r)
        l1 == [l EXCEPT !.calls = @ \cup {"verify"}]
    IN  CASE ok.kind = "raise" ->
               Reject([l1 EXCEPT !.verified = "raised"])
          [] ~ok.value ->
               Reject([l1 EXCEPT !.verified = "false"])
          [] OTHER -> [l1 EXCEPT !.pc = "extract", !.verified = "true"]

(* authenticate_eds, the extraction; r is what NCANode answers this time. *)
eds_extract(l, r) ==
    LET info == extract_user_info_from_xml(r)
        l1 == [l EXCEPT !.calls = @ \cup {"extract"}]
    IN  CASE info.kind = "raise" -> Reject(l1)
          [] ~Truthy(InfoIIN(info.value)) -> Reject(l1)
          [] OTHER -> [l1 EXCEPT !.pc = "lookup", !.iin = InfoIIN(info.value),
                                 !.signer = IF r.valid = "true" THEN "valid" ELSE "not_valid"]

eds_lookup_InactiveAuthenticated(l, db, t, fault) ==
    LET id == get_user_by_iin(db, l.iin)
        l1 == [l EXCEPT !.calls = @ \cup {"get_user_by_iin"}]
    IN  CASE id = 0 -> [l1 EXCEPT !.pc = "insert", !.found = "none"]
          [] db[id].status = "pending" ->
               Finish([l1 EXCEPT !.found = "pending"],
                      AuthResult(id, db[id], "REGISTRATION_REQUIRED"), t, fault)
          [] OTHER ->
               Finish([l1 EXCEPT !.found = db[id].status],
                      AuthResult(id, db[id], "AUTHENTICATED"), t, fault)

eds_lookup_PendingAuthenticated(l, db, t, fault) ==
    LET id == get_user_by_iin(db, l.iin)
        l1 == [l EXCEPT !.calls = @ \cup {"get_user_by_iin"}]
    IN  CASE id = 0 -> [l1 EXCEPT !.pc = "insert", !.found = "none"]
          [] db[id].status = "inactive" ->
               Reject([l1 EXCEPT !.found = "inactive"])
          [] OTHER ->
               Finish([l1 EXCEPT !.found = db[id].status],
                      AuthResult(id, db[id], "AUTHENTICATED"), t, fault)

(* authenticate_eds, the lookup and the decision on the user's status. *)
eds_lookup(l, db, t, fault) ==
    LET id == get_user_by_iin(db, l.iin)
        l1 == [l EXCEPT !.calls = @ \cup {"get_user_by_iin"}]
    IN  CASE id = 0 -> [l1 EXCEPT !.pc = "insert", !.found = "none"]
          [] db[id].status = "pending" ->
               Finish([l1 EXCEPT !.found = "pending"],
                      AuthResult(id, db[id], "REGISTRATION_REQUIRED"), t, fault)
          [] db[id].status = "inactive" ->
               Reject([l1 EXCEPT !.found = "inactive"])
          [] OTHER ->
               Finish([l1 EXCEPT !.found = db[id].status],
                      AuthResult(id, db[id], "AUTHENTICATED"), t, fault)

eds_insert_PropagatesError(l, db, dbfault, t, fault) ==
    LET done == db_insert(db, PendingUser(l.iin), dbfault)
        l1 == [l EXCEPT !.calls = @ \cup {"create_user_from_eds_data"}]
    IN  IF done.kind = "raise"
        THEN [login |-> [l1 EXCEPT !.pc = "done", !.insert = done.value,
                           !.resp = HTTPException(500,
                              <<"An unexpected error occurred during authentication",
                                done.value>>, "")],
              users |-> db]
        ELSE [login |-> Finish([l1 EXCEPT !.insert = "committed"],
                               AuthResult(Len(done.value), done.value[Len(done.value)],
                                          "REGISTRATION_REQUIRED"), t, fault),
              users |-> done.value]

(* create_user_from_eds_data and the rest of authenticate_eds: the row is  *)
(* inserted and committed, or the commit raises, is rolled back and the    *)
(* exception is caught by authenticate_eds.  Gives the request and the     *)
(* table after the step.                                                   *)
(* create_user_from_eds_data without db.rollback(): the row of a commit    *)
(* that failed in the storage layer stays behind.                          *)
eds_insert_NoRollback(l, db, dbfault, t, fault) ==
    LET done == db_insert(db, PendingUser(l.iin), dbfault)
        l1 == [l EXCEPT !.calls = @ \cup {"create_user_from_eds_data"}]
    IN  IF done.kind = "raise"
        THEN [login |-> Reject([l1 EXCEPT !.insert = done.value]),
              users |-> IF done.value = "OperationalError"
                        THEN Append(db, PendingUser(l.iin)) ELSE db]
        ELSE [login |-> Finish([l1 EXCEPT !.insert = "committed"],
                               AuthResult(Len(done.value), done.value[Len(done.value)],
                                          "REGISTRATION_REQUIRED"), t, fault),
              users |-> done.value]

eds_insert(l, db, dbfault, t, fault) ==
    LET done == db_insert(db, PendingUser(l.iin), dbfault)
        l1 == [l EXCEPT !.calls = @ \cup {"create_user_from_eds_data"}]
    IN  IF done.kind = "raise"
        THEN [login |-> Reject([l1 EXCEPT !.insert = done.value]), users |-> db]
        ELSE [login |-> Finish([l1 EXCEPT !.insert = "committed"],
                               AuthResult(Len(done.value), done.value[Len(done.value)],
                                          "REGISTRATION_REQUIRED"), t, fault),
              users |-> done.value]

----------------------------------------------------------------------------
(* Accounts: email registration and login, registration completion and    *)
(* profile update.  Each handler runs in its own database session, and     *)
(* requests served by different workers interleave between the statements  *)
(* of a handler that reach the database.                                   *)

Emails == <<"a@akimat.kz", "b@akimat.kz">>
Phones == <<"+77771234567", "+77017654321">>

(* generate_pseudo_iin(): "E" and 11 hexadecimal digits of a uuid4; two    *)
(* calls may give the same value.                                          *)
PseudoSeq == <<"E3f2a9c01b7d", "Ec0ffee12345">>
PseudoIINs == { PseudoSeq[k] : k \in 1..Len(PseudoSeq) }

Passwords == {"secret", "guess"}
get_password_hash(password) == IF password = "secret" THEN "$2b$secret" ELSE "$2b$guess"

(* pwd_context.verify: false for a user without a password hash. *)
verify_password(plain_password, hashed_password) ==
    hashed_password /= NULL /\ hashed_password = get_password_hash(plain_password)

(* db.query(User).filter(User.email == email).first(): the id, 0 for None. *)
get_user_by_email(db, email) ==
    LET hits == { k \in 1..Len(db) : db[k].email = email }
    IN  IF hits = {} THEN 0 ELSE CHOOSE k \in hits : \A h \in hits : k <= h

(* The row register_user builds from user_data and the pseudo-IIN. *)
EmailUser(email, password, iin) ==
    [iin |-> iin, email |-> email, full_name |-> "Full Name",
     hashed_password |-> get_password_hash(password),
     is_active |-> TRUE, is_superuser |-> FALSE, status |-> "active",
     role |-> "administrator", phone_number |-> Phones[1], organization |-> NULL,
     position |-> NULL]

(* The row with the attributes of changes set. *)
Assign(row, changes) ==
    [f \in DOMAIN row |-> IF f \in DOMAIN changes THEN changes[f] ELSE row[f]]

db_update_NoUniqueIndex(db, id, changes) == Return([db EXCEPT ![id] = Assign(@, changes)])

(* Attributes of the loaded row id are set and db.commit() is called: the  *)
(* UPDATE writes the changed columns of the row as it is stored now, and   *)
(* raises when another row holds the new iin or email.                     *)
db_update(db, id, changes) ==
    LET row == Assign(db[id], changes)
    IN  IF \E k \in (1..Len(db)) \ {id} :
               \/ row.iin /= NULL /\ db[k].iin = row.iin
               \/ row.email /= NULL /\ db[k].email = row.email
        THEN Raise("IntegrityError")
        ELSE Return([db EXCEPT ![id] = row])

(* The state of one account request: the endpoint (op), where it stands    *)
(* (pc), the email it was sent, the user it loaded (uid, with the status   *)
(* and the iin read then), the login record of an EDS login (eds), and the *)
(* answer: the status code, the exception behind a 500 (error) and the     *)
(* token of a 200 (token, a set of at most one).                           *)
IdleRequest ==
    [op |-> "none", pc |-> "idle", email |-> NULL, uid |-> 0, seen |-> "none",
     seen_iin |-> NULL, eds |-> IdleLogin, code |-> 0, error |-> "none", token |-> {}]

(* The handler raises an HTTPException or fails with an exception. *)
Answer(c, code, error) == [c EXCEPT !.pc = "done", !.code = code, !.error = error]

(* The handler ends by signing a token for iin and returning it. *)
AnswerToken(c, iin, t, fault) ==
    LET made == create_access_token(Dict(iin), NoDelta, t, fault)
    IN  IF made.kind = "raise" THEN Answer(c, 500, made.value)
        ELSE [c EXCEPT !.pc = "done", !.code = 200, !.token = {made.value}]

(* register_user up to the insert: the check of the email. *)
register_check(c, db, email) ==
    LET c1 == [c EXCEPT !.op = "register_user", !.email = email]
    IN  IF get_user_by_email(db, email) /= 0
        THEN Answer(c1, 400, "Email already registered")
        ELSE [c1 EXCEPT !.pc = "insert"]

(* register_user from the insert on; gives the request and the table. *)
register_insert(c, db, pseudo_iin, password, dbfault, t, fault) ==
    LET done == db_insert(db, EmailUser(c.email, password, pseudo_iin), dbfault)
    IN  IF done.kind = "raise"
        THEN [acct |-> Answer(c, 500, done.value), users |-> db]
        ELSE [acct |-> AnswerToken([c EXCEPT !.uid = Len(done.value), !.seen = "active",
                                              !.seen_iin = pseudo_iin],
                                   pseudo_iin, t, fault),
              users |-> done.value]

(* login_user and login_oauth (the same statements) up to the assignment   *)
(* of a pseudo-IIN: the user is loaded by email, the password and the      *)
(* is_active flag are checked, and a user with an iin gets the token.      *)
email_login(c, op, db, email, password, t, fault) ==
    LET id == get_user_by_email(db, email)
        c1 == [c EXCEPT !.op = op, !.email = email]
    IN  CASE id = 0 -> Answer(c1, 401, "Incorrect email or password")
          [] ~verify_password(password, db[id].hashed_password) ->
               Answer(c1, 401, "Incorrect email or password")
          [] ~db[id].is_active ->
               Answer([c1 EXCEPT !.uid = id, !.seen = db[id].status], 400, "Inactive user")
          [] ~Truthy(db[id].iin) ->
               [c1 EXCEPT !.pc = "assign", !.uid = id, !.seen = db[id].status,
                          !.seen_iin = db[id].iin]
          [] OTHER ->
               AnswerToken([c1 EXCEPT !.uid = id, !.seen = db[id].status,
                                      !.seen_iin = db[id].iin],
                           db[id].iin, t, fault)

(* login_user and login_oauth, user.iin = generate_pseudo_iin() with the   *)
(* commit and the refresh: the handler holds the iin the refresh read      *)
(* (seen_iin); an exception of the commit is not caught and ends in a 500. *)
email_login_assign(c, db, pseudo_iin) ==
    LET done == db_update(db, c.uid, [iin |-> pseudo_iin])
    IN  IF done.kind = "raise"
        THEN [acct |-> Answer(c, 500, done.value), users |-> db]
        ELSE [acct |-> [c EXCEPT !.pc = "sign", !.seen_iin = done.value[c.uid].iin],
              users |-> done.value]

(* login_user and login_oauth after the refresh: the token is signed for   *)
(* the iin the handler holds.                                              *)
email_login_sign(c, t, fault) == AnswerToken(c, c.seen_iin, t, fault)

(* verify_registration_token without the test of the status. *)
verify_registration_token_AnyStatus(c, db, bearer, email, t) ==
    LET user == get_current_user_from_token(bearer, db, t)
        c1 == [c EXCEPT !.op = "complete_registration", !.email = email]
    IN  CASE user.status /= 200 -> Answer(c1, user.status, user.detail)
          [] OTHER ->
               [c1 EXCEPT !.pc = "commit", !.uid = user.user,
                          !.seen = db[user.user].status, !.seen_iin = db[user.user].iin]

(* The dependency of complete_registration: the user of the token, who     *)
(* must be pending.                                                        *)
verify_registration_token(c, db, bearer, email, t) ==
    LET user == get_current_user_from_token(bearer, db, t)
        c1 == [c EXCEPT !.op = "complete_registration", !.email = email]
    IN  CASE user.status /= 200 -> Answer(c1, user.status, user.detail)
          [] db[user.user].status /= "pending" ->
               Answer([c1 EXCEPT !.uid = user.user, !.seen = db[user.user].status],
                      403, "Only users in PENDING status can complete registration")
          [] OTHER ->
               [c1 EXCEPT !.pc = "commit", !.uid = user.user,
                          !.seen = db[user.user].status, !.seen_iin = db[user.user].iin]

(* The registration data sent with the email. *)
RegistrationData(email) ==
    [email |-> email, phone_number |-> Phones[2], organization |-> "Akimat",
     position |-> "Clerk"]

complete_registration_KeepsProfileEmpty(c, db, t, fault) ==
    LET done == db_update(db, c.uid, [status |-> "active"])
    IN  IF done.kind = "raise"
        THEN [acct |-> Answer(c, 500, done.value), users |-> db]
        ELSE [acct |-> AnswerToken(c, done.value[c.uid].iin, t, fault),
              users |-> done.value]

(* The body of complete_registration: the profile and the status are set   *)
(* and committed; an exception of the commit is not caught.                *)
complete_registration(c, db, t, fault) ==
    LET data == RegistrationData(c.email)
        done == db_update(db, c.uid,
                          [email |-> data.email, phone_number |-> data.phone_number,
                           organization |-> data.organization,
                           position |-> data.position, status |-> "active"])
    IN  IF done.kind = "raise"
        THEN [acct |-> Answer(c, 500, done.value), users |-> db]
        ELSE [acct |-> AnswerToken(c, done.value[c.uid].iin, t, fault),
              users |-> done.value]

(* What PUT /auth/me may change: the profile attributes its description   *)
(* lists.                                                                  *)
ProfileUpdates ==
    {[full_name |-> "New Name"], [phone_number |-> Phones[1]]}
      \cup { [email |-> Emails[k]] : k \in 1..Len(Emails) }

(* crud.user.update(db, db_obj, obj_in): the given attributes are set and  *)
(* committed.                                                              *)
crud_user_update(db, id, obj_in) == db_update(db, id, obj_in)

(* update_me: PUT /auth/me with the bearer and the update; gives the       *)
(* request and the table.                                                  *)
update_me(c, db, bearer, user_update, t) ==
    LET current_user == get_current_active_user(db, bearer, t)
        c1 == [c EXCEPT !.op = "update_me"]
        c2 == [c1 EXCEPT !.uid = current_user.user]
        done == crud_user_update(db, current_user.user, user_update)
    IN  CASE current_user.status /= 200 ->
               [acct |-> Answer(c1, current_user.status, current_user.detail), users |-> db]
          [] done.kind = "raise" ->
               [acct |-> Answer([c2 EXCEPT !.seen = db[current_user.user].status],
                                500, done.value),
                users |-> db]
          [] OTHER ->
               [acct |-> Answer([c2 EXCEPT !.seen = db[current_user.user].status,
                                           !.seen_iin = db[current_user.user].iin],
                                200, "none"),
                users |-> done.value]

----------------------------------------------------------------------------
(* The tables a run starts from: for each IIN no user, a user an earlier   *)
(* EDS login created (pending), one that completed registration (active),  *)
(* or one that was deactivated afterwards (inactive).                       *)

Lifecycles == {"absent", "pending", "active", "inactive"}

RegisteredUser(k, status) ==
    [PendingUser(IINSeq[k]) EXCEPT !.email = Emails[k], !.phone_number = Phones[k],
                                   !.organization = "Akimat", !.position = "Clerk",
                                   !.status = status]

InitialRows(k, life) ==
    CASE life = "absent" -> <<>>
      [] life = "pending" -> <<PendingUser(IINSeq[k])>>
      [] OTHER -> <<RegisteredUser(k, life)>>

InitialTables ==
    { InitialRows(1, c[1]) \o InitialRows(2, c[2]) : c \in [1..2 -> Lifecycles] }

NoCall == [made |-> FALSE]
NoRequestCall == [op |-> "none"]
NoVal == [made |-> FALSE]
NoOut == [call |-> "none"]
NoSvc == Response("timeout", "absent", "absent", "absent", "absent", "absent", "absent")

Docs == {"", "<signed/>"}

----------------------------------------------------------------------------
(* Spec: concurrent EDS logins. *)

Init ==
    /\ users \in InitialTables
    /\ login = [p \in Procs |-> IdleLogin]
    /\ now = 0
    /\ tok = NoCall
    /\ val = NoVal
    /\ svc = NoSvc
    /\ out = NoOut
    /\ acct = [c \in Clients |-> IdleRequest]
    /\ requests = <<>>
    /\ call = NoRequestCall

Request(p) ==
    /\ login[p].pc = "idle"
    /\ \E xml \in Docs : login' = [login EXCEPT ![p] = eds_request(@, xml)]
    /\ UNCHANGED <<users, now, tok, val, svc, out, acct, requests, call>>

Verify(p) ==
    /\ login[p].pc = "verify"
    /\ \E r \in Responses : login' = [login EXCEPT ![p] = eds_verify(@, r)]
    /\ UNCHANGED <<users, now, tok, val, svc, out, acct, requests, call>>

Extract(p) ==
    /\ login[p].pc = "extract"
    /\ \E r \in Responses : login' = [login EXCEPT ![p] = eds_extract(@, r)]
    /\ UNCHANGED <<users, now, tok, val, svc, out, acct, requests, call>>

Lookup(p) ==
    /\ login[p].pc = "lookup"
    /\ \E fault \in SignFaults :
         login' = [login EXCEPT ![p] = eds_lookup(@, users, now, fault)]
    /\ UNCHANGED <<users, now, tok, val, svc, out, acct, requests, call>>

Insert(p) ==
    /\ login[p].pc = "insert"
    /\ \E dbfault \in BOOLEAN, fault \in SignFaults :
         LET step == eds_insert(login[p], users, dbfault, now, fault)
         IN  /\ login' = [login EXCEPT ![p] = step.login]
             /\ users' = step.users
    /\ UNCHANGED <<now, tok, val, svc, out, acct, requests, call>>

Next ==
    \E p \in Procs :
        \/ Request(p)
        \/ Verify(p)
        \/ Extract(p)
        \/ Lookup(p)
        \/ Insert(p)

Spec == Init /\ [][Next]_vars

----------------------------------------------------------------------------
(* Properties of Spec. *)

Done(p) == login[p].pc = "done"
RowsWithIIN(db, iin) == { k \in 1..Len(db) : db[k].iin = iin }
TokenOf(resp) == (CHOOSE b \in resp.body : TRUE).access_token
BodyOf(resp) == CHOOSE b \in resp.body : TRUE

(* C1: when verify_xml_signature does not return true, authenticate_eds    *)
(* returns None at once: the step that learns it ends the call with None,  *)
(* leaves the users table as it was, and the call has by then called       *)
(* nothing but the verification (no extraction, no lookup, no creation).   *)
C1_FailedVerificationIsNone ==
    /\ [](\A p \in Procs :
            (Done(p) /\ login[p].verified \in {"false", "raised"})
              => /\ login[p].auth = AuthNone
                 /\ login[p].calls = {"verify"}
                 /\ login[p].iin = NULL
                 /\ login[p].found = "unset"
                 /\ login[p].insert = "unset")
    /\ [][\A p \in Procs :
            (login[p].pc = "verify" /\ login'[p] /= login[p]
               /\ login'[p].verified /= "true")
              => /\ login'[p].pc = "done"
                 /\ login'[p].auth = AuthNone
                 /\ users' = users]_vars

C1_Witness ==
    \E p \in Procs :
        /\ Done(p) /\ login[p].verified = "false" /\ login[p].auth = AuthNone
        /\ \E k \in 1..Len(users) : users[k].status = "active"

(* C3: a login with a valid signature whose IIN belongs to a stored user   *)
(* returns that stored row with REGISTRATION_REQUIRED when its status is   *)
(* pending and with AUTHENTICATED when it is active; the step leaves the   *)
(* users table as it was and the call never reaches the creation.          *)
C3_ExistingUserStatus ==
    /\ [](\A p \in Procs :
            (Done(p) /\ login[p].found \in {"pending", "active"})
              => /\ login[p].verified = "true"
                 /\ login[p].insert = "unset"
                 /\ "create_user_from_eds_data" \notin login[p].calls
                 /\ login[p].auth.user_id \in RowsWithIIN(users, login[p].iin)
                 /\ login[p].auth.login_status =
                      IF login[p].found = "pending" THEN "REGISTRATION_REQUIRED"
                                                    ELSE "AUTHENTICATED")
    /\ [][\A p \in Procs : \A id \in 1..Len(users) :
            (login[p].pc = "lookup" /\ login'[p] /= login[p]
               /\ users[id].iin = login[p].iin
               /\ users[id].status \in {"pending", "active"})
              => /\ users' = users
                 /\ login'[p].pc = "done"
                 /\ login'[p].auth =
                      AuthResult(id, users[id],
                                 IF users[id].status = "pending"
                                 THEN "REGISTRATION_REQUIRED" ELSE "AUTHENTICATED")]_vars

C3_Witness ==
    \E p, q \in Procs :
        /\ Done(p) /\ login[p].found = "pending"
        /\ login[p].auth.login_status = "REGISTRATION_REQUIRED"
        /\ Done(q) /\ login[q].found = "active"
        /\ login[q].auth.login_status = "AUTHENTICATED"

(* C4: a login with a valid signature for a user whose status is inactive  *)
(* ends exactly as a login whose verification failed: authenticate_eds     *)
(* returns None, the response is the same 401 with the same detail and     *)
(* headers, no token is created and none is in the response.               *)
C4_InactiveLooksLikeBadSignature ==
    /\ \A q \in Procs :
         (Done(q) /\ login[q].found = "inactive")
           => /\ login[q].verified = "true"
              /\ login[q].auth = AuthNone
              /\ login[q].resp.code = 401
              /\ login[q].resp.body = {}
              /\ "create_access_token" \notin login[q].calls
    /\ \A p, q \in Procs :
         (Done(p) /\ login[p].verified = "false" /\ Done(q) /\ login[q].found = "inactive")
           => /\ login[p].auth = login[q].auth
              /\ login[p].resp = login[q].resp

C4_Witness ==
    \E p, q \in Procs :
        /\ Done(p) /\ login[p].verified = "false"
        /\ Done(q) /\ login[q].found = "inactive" /\ login[q].verified = "true"
        /\ login[q].resp.code = 401

(* C5: the login that finds no user for its IIN and whose insert commits   *)
(* adds exactly one row, with that IIN, status pending, no email, no full  *)
(* name and no password hash, and returns it with REGISTRATION_REQUIRED;   *)
(* no IIN ever has two rows; and after any interleaving of logins for an   *)
(* unseen IIN the table holds exactly one row for it, for every login that *)
(* got past the lookup without a fault of the storage layer.               *)
C5_OnePendingUserPerIIN ==
    /\ [](\A x \in IINs : Cardinality(RowsWithIIN(users, x)) <= 1)
    /\ [](\A p \in Procs :
            (Done(p) /\ login[p].found = "none" /\ login[p].insert /= "OperationalError")
              => /\ Cardinality(RowsWithIIN(users, login[p].iin)) = 1
                 /\ login[p].insert = "committed"
                      => /\ login[p].auth.login_status = "REGISTRATION_REQUIRED"
                         /\ login[p].auth.user[1] = PendingUser(login[p].iin)
                         /\ login[p].auth.user_id \in RowsWithIIN(users, login[p].iin))
    /\ [][\A p \in Procs :
            (login[p].pc = "insert" /\ login'[p].insert = "committed")
              => /\ RowsWithIIN(users, login[p].iin) = {}
                 /\ users' = Append(users, PendingUser(login[p].iin))
                 /\ users'[Len(users')].status = "pending"
                 /\ users'[Len(users')].email = NULL
                 /\ users'[Len(users')].full_name = NULL
                 /\ users'[Len(users')].hashed_password = NULL]_vars

C5_Witness ==
    \E p, q \in Procs :
        /\ p /= q /\ Done(p) /\ Done(q)
        /\ login[p].iin = login[q].iin
        /\ login[p].found = "none" /\ login[q].found = "none"
        /\ login[p].insert = "committed"
        /\ login[p].auth.login_status = "REGISTRATION_REQUIRED"
        /\ Cardinality(RowsWithIIN(users, login[p].iin)) = 1

(* C6: the login whose insert violates the unique index on iin rolls back  *)
(* (the table is as before its step), ends with authenticate_eds returning *)
(* None and a 401 without a token, and the pending user the winner created *)
(* is in the table.                                                        *)
C6_RaceLoserIsUnauthorized ==
    /\ [](\A p \in Procs :
            (Done(p) /\ login[p].insert = "IntegrityError")
              => /\ login[p].auth = AuthNone
                 /\ login[p].resp = Unauthorized
                 /\ login[p].resp.body = {}
                 /\ "create_access_token" \notin login[p].calls
                 /\ \E k \in RowsWithIIN(users, login[p].iin) :
                        users[k] = PendingUser(login[p].iin))
    /\ [][\A p \in Procs :
            (login[p].pc = "insert" /\ login'[p].insert = "IntegrityError")
              => /\ users' = users
                 /\ RowsWithIIN(users, login[p].iin) /= {}]_vars

C6_Witness ==
    \E p, q \in Procs :
        /\ Done(p) /\ login[p].insert = "IntegrityError" /\ login[p].resp.code = 401
        /\ Done(q) /\ login[q].insert = "committed" /\ login[q].iin = login[p].iin
        /\ users[login[q].auth.user_id] = PendingUser(login[p].iin)

(* C7: a login whose insert of the pending user hits a storage fault is    *)
(* answered with a 500.                                                    *)
C7_StorageFaultIs500 ==
    \A p \in Procs :
        (Done(p) /\ login[p].insert = "OperationalError") => login[p].resp.code = 500

(* What the code does instead (C7): the fault is rolled back, caught by    *)
(* authenticate_eds and answered like a failed signature.                  *)
C7_StorageFaultIsUnauthorized ==
    /\ [](\A p \in Procs :
            (Done(p) /\ login[p].insert = "OperationalError")
              => login[p].auth = AuthNone /\ login[p].resp = Unauthorized)
    /\ [][\A p \in Procs :
            (login[p].pc = "insert" /\ login'[p].insert = "OperationalError")
              => users' = users]_vars

(* C8: a login with a valid signature for a user whose status is active    *)
(* returns AUTHENTICATED, and unless the signing library fails twice the   *)
(* response is a 200 with is_new_user false and a token signed with the    *)
(* secret whose iin claim is the iin of that stored user.                  *)
C8_ActiveUserTokenCarriesIIN ==
    \A p \in Procs :
        (Done(p) /\ login[p].found = "active")
          => /\ login[p].verified = "true"
             /\ login[p].auth.login_status = "AUTHENTICATED"
             /\ login[p].sign \notin SignRaises
                  => /\ login[p].resp.code = 200
                     /\ BodyOf(login[p].resp).is_new_user = FALSE
                     /\ BodyOf(login[p].resp).token_type = "bearer"
                     /\ TokenOf(login[p].resp).key = SECRET_KEY
                     /\ TokenOf(login[p].resp).iin = users[login[p].auth.user_id].iin
                     /\ TokenOf(login[p].resp).iin = login[p].iin
                     /\ users[login[p].auth.user_id].status = "active"
             /\ login[p].sign = "none" => ~TokenOf(login[p].resp).error

C8_Witness ==
    \E p \in Procs :
        /\ Done(p) /\ login[p].found = "active" /\ login[p].sign = "none"
        /\ login[p].resp.code = 200
        /\ TokenOf(login[p].resp).iin = login[p].iin

(* How far a finished login got. *)
SignatureFailed(p) == login[p].verified \in {"false", "raised"}
NoIINExtracted(p) ==
    login[p].verified = "true" /\ "extract" \in login[p].calls /\ login[p].iin = NULL
Identified(p) == login[p].verified = "true" /\ login[p].iin /= NULL

C18_WitnessReturning ==
    \E p, q \in Procs :
        /\ Done(p) /\ login[p].found = "active" /\ login[p].resp.code = 200
        /\ ~BodyOf(login[p].resp).is_new_user
        /\ Done(q) /\ login[q].xml = "" /\ login[q].resp.code = 400

(* C20: two logins that end in a 500 get the same response, whatever the   *)
(* exception that caused it.                                               *)
C20_ServerErrorIsGeneric ==
    \A p, q \in Procs :
        (Done(p) /\ Done(q) /\ login[p].resp.code = 500 /\ login[q].resp.code = 500)
          => login[p].resp = login[q].resp

(* What the code does (C20): the detail of the 500 ends with the text of   *)
(* the exception.                                                          *)
C20_ServerErrorEchoesException ==
    \A p \in Procs :
        (Done(p) /\ login[p].resp.code = 500)
          => /\ login[p].sign \in SignRaises
             /\ login[p].resp.detail =
                  <<"An unexpected error occurred during authentication",
                    IF login[p].sign = "encode_and_fallback_type_error"
                    THEN "TypeError" ELSE "JWSError">>

C20_WitnessTwoErrors ==
    \E p, q \in Procs :
        /\ Done(p) /\ Done(q) /\ login[p].resp.code = 500 /\ login[q].resp.code = 500
        /\ login[p].resp.detail /= login[q].resp.detail

(* authenticate_eds of login p has returned a user. *)
Succeeded(p) == Done(p) /\ login[p].auth.user_id /= 0

(* C23: a login succeeds (authenticate_eds returns a user) only with an    *)
(* IIN read from a service response whose first signer is reported valid,  *)
(* also when the extraction call is answered differently from the          *)
(* verification call.                                                      *)
C23_IINFromValidSigner ==
    \A p \in Procs :
        Succeeded(p) => login[p].signer = "valid"

(* What the code does (C23): the verification saw a valid first signer,    *)
(* and the IIN is whatever the second response carries under status 200.   *)
C23_OnlyVerificationChecksValid ==
    \A p \in Procs :
        Succeeded(p)
          => /\ login[p].verified = "true"
             /\ login[p].signer \in {"valid", "not_valid"}
             /\ login[p].iin \in IINs

C23_WitnessInvalidSigner ==
    \E p \in Procs :
        /\ Done(p) /\ login[p].resp.code = 200
        /\ login[p].signer = "not_valid"

(* The step of login p in which authenticate_eds returns. *)
Returns(p) == login[p].pc /= "done" /\ login'[p].pc = "done" /\ login[p].pc /= "idle"

C26_WitnessExisting ==
    \E p \in Procs :
        /\ Done(p) /\ login[p].found = "active" /\ login[p].auth /= AuthNone

----------------------------------------------------------------------------
(* SpecNCA: the NCANode wrappers on every outcome of the service call. *)

InitNCA ==
    /\ svc \in Responses
    /\ out = NoOut
    /\ users = <<>>
    /\ login = [p \in Procs |-> IdleLogin]
    /\ now = 0
    /\ tok = NoCall
    /\ val = NoVal
    /\ acct = [c \in Clients |-> IdleRequest]
    /\ requests = <<>>
    /\ call = NoRequestCall

(* verify_xml_signature is called and NCANode answers svc. *)
CallVerify ==
    /\ out' = [call |-> "verify", result |-> verify_xml_signature(svc)]
    /\ UNCHANGED <<svc, users, login, now, tok, val, acct, requests, call>>

(* A login whose signature has just been verified. *)
VerifiedLogin ==
    [IdleLogin EXCEPT !.pc = "extract", !.xml = "<signed/>", !.verified = "true",
                      !.calls = {"verify"}]

(* extract_user_info_from_xml is called and NCANode answers svc; then is   *)
(* the login after the step of authenticate_eds that makes this call.      *)
CallExtract ==
    /\ out' = [call |-> "extract", result |-> extract_user_info_from_xml(svc),
               then |-> eds_extract(VerifiedLogin, svc)]
    /\ UNCHANGED <<svc, users, login, now, tok, val, acct, requests, call>>

(* The next call meets another outcome. *)
NextOutcome ==
    /\ svc' \in Responses
    /\ out' = NoOut
    /\ UNCHANGED <<users, login, now, tok, val, acct, requests, call>>

NextNCA == CallVerify \/ CallExtract \/ NextOutcome

SpecNCA == InitNCA /\ [][NextNCA]_vars

(* The service response says: status 200 and a first signer with valid = true. *)
ReportsValid(r) ==
    /\ r.transport = "object"
    /\ r.status = "200"
    /\ r.signers = "list"
    /\ r.first = "object"
    /\ r.valid = "true"

(* C2: verify_xml_signature always returns (it never raises), and it       *)
(* returns true exactly when the response is a JSON object with status 200 *)
(* whose first signer entry has valid = true; a timeout, a transport or    *)
(* parse exception, a non-200 status, a missing or empty signers list and  *)
(* a missing or false valid flag all give false.                           *)
C2_VerifyFailsClosed ==
    out.call = "verify"
      => /\ out.result.kind = "return"
         /\ out.result.value \in BOOLEAN
         /\ out.result.value <=> ReportsValid(svc)

C2_Witness ==
    /\ out.call = "verify"
    /\ svc.transport = "object" /\ svc.status = "200" /\ svc.signers = "empty"
    /\ out.result = Return(FALSE)

C2_WitnessTrue ==
    out.call = "verify" /\ out.result = Return(TRUE) /\ ReportsValid(svc)

(* The response is a JSON object with status 200 whose first signer has a  *)
(* subject object with an IIN in it.                                       *)
CarriesIIN(r) ==
    /\ r.transport = "object"
    /\ r.status = "200"
    /\ r.signers = "list"
    /\ r.first = "object"
    /\ r.subject = "object"
    /\ r.iin \in IINs

(* The failures C19 lists: no parsable object, a status other than 200, no *)
(* first signer.                                                           *)
ServiceFailed(r) ==
    \/ r.transport /= "object"
    \/ r.status /= "200"
    \/ r.signers /= "list"
    \/ r.first /= "object"

(* C19: extract_user_info_from_xml always returns (it never raises); on a  *)
(* timeout, a transport or parse failure, a non-200 status or a missing    *)
(* signer it returns the empty dictionary, and without a subject or an iin *)
(* field it returns no IIN either; authenticate_eds then returns None at   *)
(* that step, having called the verification and the extraction only (no   *)
(* lookup, no creation), and the endpoint answers 401.  Only a response    *)
(* that carries an IIN takes the login on to the lookup, with that IIN.    *)
C19_ExtractFailsEmpty ==
    out.call = "extract"
      => /\ out.result.kind = "return"
         /\ ServiceFailed(svc) => out.result.value = "no_key"
         /\ ~CarriesIIN(svc)
              => /\ ~Truthy(InfoIIN(out.result.value))
                 /\ out.then.pc = "done"
                 /\ out.then.auth = AuthNone
                 /\ out.then.iin = NULL
                 /\ out.then.calls = {"verify", "extract"}
                 /\ out.then.found = "unset" /\ out.then.insert = "unset"
                 /\ out.then.resp = Unauthorized
         /\ CarriesIIN(svc)
              => /\ InfoIIN(out.result.value) = svc.iin
                 /\ out.then.pc = "lookup"
                 /\ out.then.iin = svc.iin

C19_Witness ==
    /\ out.call = "extract"
    /\ svc.transport = "object" /\ svc.status = "200" /\ svc.signers = "absent"
    /\ out.result = Return("no_key")
    /\ out.then.auth = AuthNone

C19_WitnessNoField ==
    /\ out.call = "extract"
    /\ svc.subject = "object" /\ svc.status = "200" /\ svc.iin = "absent"
    /\ out.result = Return(NULL)
    /\ out.then.pc = "done"

----------------------------------------------------------------------------
(* SpecToken: one token, the clock, deactivation and the validators. *)

Deltas == {NoDelta, Delta(0), Delta(5)}
(* The clock moves by the lifetime of a degraded or of a regular token. *)
ClockSteps == {FALLBACK_EXPIRE_MINUTES, ACCESS_TOKEN_EXPIRE_MINUTES}

(* The tables of SpecToken: the first IIN in every lifecycle state, the    *)
(* second IIN without a user.                                              *)
TokenTables == { InitialRows(1, life) : life \in Lifecycles }

InitToken ==
    /\ users \in TokenTables
    /\ now = 0
    /\ tok = NoCall
    /\ val = NoVal
    /\ login = [p \in Procs |-> IdleLogin]
    /\ svc = NoSvc
    /\ out = NoOut
    /\ acct = [c \in Clients |-> IdleRequest]
    /\ requests = <<>>
    /\ call = NoRequestCall

(* create_access_token({"iin": x}, expires_delta) is called at time now. *)
Issue ==
    /\ \E x \in IINs \cup {NULL}, delta \in Deltas, fault \in SignFaults :
         tok' = [made |-> TRUE, iin |-> x, delta |-> delta, at |-> now,
                 fault |-> fault,
                 holder |-> IF get_user_by_iin(users, x) = 0 THEN "absent"
                            ELSE users[get_user_by_iin(users, x)].status,
                 result |-> create_access_token(Dict(x), delta, now, fault)]
    /\ val' = NoVal
    /\ UNCHANGED <<users, now, login, svc, out, acct, requests, call>>

(* Time passes. *)
Advance ==
    /\ \E d \in ClockSteps : now + d <= MaxTime /\ now' = now + d
    /\ val' = NoVal
    /\ UNCHANGED <<users, tok, login, svc, out, acct, requests, call>>

Issued == tok.made /\ tok.result.kind = "return"

(* A token an attacker signs with a key of their own: the claims of the    *)
(* issued token with the iin claim of their choice.                        *)
Forged(token, x) == Token(x, token.exp, token.error, "ATTACKER_KEY")

(* What a request may carry as its bearer token: nothing, the issued token *)
(* or a forgery of it.                                                     *)
Bearers ==
    {{}} \cup (IF Issued
               THEN {{tok.result.value}}
                      \cup { {Forged(tok.result.value, x)} : x \in IINs }
               ELSE {})

(* An administrator deactivates a user: the status becomes inactive; the   *)
(* is_active flag is cleared with it or left as it is.                     *)
deactivate_user(db, id, clear_flag) ==
    [db EXCEPT ![id].status = "inactive",
               ![id].is_active = IF clear_flag THEN FALSE ELSE @]

Deactivate ==
    /\ \E id \in 1..Len(users), clear_flag \in BOOLEAN :
         /\ users[id].status /= "inactive"
         /\ users' = deactivate_user(users, id, clear_flag)
    /\ val' = NoVal
    /\ UNCHANGED <<now, tok, login, svc, out, acct, requests, call>>

(* A request presents a bearer to kz_eds.get_current_user_from_token. *)
ValidateEDS ==
    /\ \E bearer \in Bearers :
         val' = [made |-> TRUE, by |-> "get_current_user_from_token",
                 bearer |-> bearer,
                 outcome |-> get_current_user_from_token(bearer, users, now)]
    /\ UNCHANGED <<users, now, tok, login, svc, out, acct, requests, call>>

(* A request presents a bearer to deps.get_current_user. *)
ValidateDeps ==
    /\ \E bearer \in Bearers :
         val' = [made |-> TRUE, by |-> "get_current_user", bearer |-> bearer,
                 outcome |-> get_current_user(users, bearer, now)]
    /\ UNCHANGED <<users, now, tok, login, svc, out, acct, requests, call>>

(* A request presents a bearer to deps.get_current_active_user. *)
ValidateActive ==
    /\ \E bearer \in Bearers :
         val' = [made |-> TRUE, by |-> "get_current_active_user", bearer |-> bearer,
                 outcome |-> get_current_active_user(users, bearer, now)]
    /\ UNCHANGED <<users, now, tok, login, svc, out, acct, requests, call>>

NextToken == Issue \/ Advance \/ Deactivate \/ ValidateEDS \/ ValidateDeps \/ ValidateActive

SpecToken == InitToken /\ [][NextToken]_vars

(* val, when made, is a validation at the time now against the table as it *)
(* is: Issue, Advance and Deactivate clear it.                             *)

(* The last validation was of the issued token itself. *)
Presented == val.made /\ Issued /\ val.bearer = {tok.result.value}

(* C9: a token made by create_access_token({iin: X}) for an IIN X, while   *)
(* it has not expired (now <= exp) and a user with iin X is stored, is     *)
(* resolved by get_current_user and by get_current_user_from_token to the  *)
(* stored user whose iin is X.                                             *)
C9_TokenRoundTrip ==
    (Presented /\ val.by /= "get_current_active_user" /\ tok.iin \in IINs
       /\ now <= tok.result.value.exp
       /\ RowsWithIIN(users, tok.iin) /= {})
      => /\ val.outcome.status = 200
         /\ val.outcome.user \in RowsWithIIN(users, tok.iin)
         /\ users[val.outcome.user].iin = tok.iin

C9_Witness ==
    /\ Presented /\ val.by = "get_current_user"
    /\ tok.iin \in IINs /\ tok.fault = "none"
    /\ now = tok.result.value.exp /\ now > 0
    /\ val.outcome.status = 200 /\ users[val.outcome.user].iin = tok.iin

C9_WitnessEDS ==
    /\ Presented /\ val.by = "get_current_user_from_token"
    /\ tok.iin \in IINs /\ val.outcome.status = 200

(* The TTL the caller asked for: the override when given, else the setting. *)
RequestedTTL(delta) ==
    IF delta = NoDelta THEN ACCESS_TOKEN_EXPIRE_MINUTES ELSE DeltaMinutes(delta)

(* C10: the expiry of a token (made without a signing fault) is its issue  *)
(* time plus the TTL, the expires_delta override when one is given and     *)
(* ACCESS_TOKEN_EXPIRE_MINUTES otherwise; and once the clock is past the   *)
(* expiry every validation answers 401, whether or not the user exists.    *)
C10_ExpiryIsIssuePlusTTL ==
    /\ (Issued /\ tok.fault = "none")
         => tok.result.value.exp = tok.at + RequestedTTL(tok.delta)
    /\ (Presented /\ now > tok.result.value.exp)
         => val.outcome.status = 401 /\ val.outcome.user = 0

(* What holds of the code (C10): a zero override counts as none given. *)
C10_ExpiryEnforced ==
    /\ (Issued /\ tok.fault = "none")
         => tok.result.value.exp =
              tok.at + (IF tok.delta \in {NoDelta, Delta(0)}
                        THEN ACCESS_TOKEN_EXPIRE_MINUTES ELSE DeltaMinutes(tok.delta))
    /\ (Presented /\ now > tok.result.value.exp)
         => val.outcome.status = 401 /\ val.outcome.user = 0

C10_WitnessExpired ==
    /\ Presented /\ tok.fault = "none" /\ tok.delta = NoDelta
    /\ now > tok.result.value.exp
    /\ RowsWithIIN(users, tok.iin) /= {}
    /\ val.outcome.status = 401

----------------------------------------------------------------------------
(* What a validated request carried. *)

NoBearer == val.made /\ val.bearer = {}
BadSignature == val.made /\ \E token \in val.bearer : token.key /= SECRET_KEY
Expired == Presented /\ now > tok.result.value.exp
NoIINClaim == Presented /\ tok.result.value.iin = NULL
(* A token that is signed, not expired and names an IIN nobody has. *)
Orphaned ==
    /\ Presented /\ now <= tok.result.value.exp
    /\ tok.result.value.iin /= NULL
    /\ RowsWithIIN(users, tok.result.value.iin) = {}

(* C11 as stated: validation answers 401 when the token is absent, badly   *)
(* signed, expired or without an iin claim, and answers NotFound (404)     *)
(* when a valid token names an IIN that no user has; no user is returned.  *)
C11_OrphanedTokenIsNotFound ==
    /\ (NoBearer \/ BadSignature \/ Expired \/ NoIINClaim)
         => val.outcome.status = 401 /\ val.outcome.user = 0
    /\ Orphaned => val.outcome.status = 404 /\ val.outcome.user = 0

(* C11: validation answers 401 when the token is absent, badly signed,     *)
(* expired or without an iin claim; when a valid token names an IIN that   *)
(* no user has, get_current_user (and get_current_active_user on top of    *)
(* it) answers 404 and get_current_user_from_token answers the same 401 as *)
(* for an invalid token; in none of these cases is a user returned.        *)
C11_InvalidTokenResolvesNoUser ==
    /\ (NoBearer \/ BadSignature \/ Expired \/ NoIINClaim)
         => val.outcome.status = 401 /\ val.outcome.user = 0
    /\ Orphaned
         => /\ val.outcome.user = 0
            /\ val.outcome.status =
                 IF val.by = "get_current_user_from_token" THEN 401 ELSE 404
            /\ val.by = "get_current_user_from_token"
                 => val.outcome = HTTPError(401, "Could not validate credentials")

C11_Witness ==
    /\ Orphaned /\ val.by = "get_current_user_from_token"
    /\ val.outcome.status = 401

C11_WitnessForged ==
    /\ BadSignature /\ val.by = "get_current_user"
    /\ \E token \in val.bearer : RowsWithIIN(users, token.iin) /= {}
    /\ val.outcome.status = 401

C11_WitnessNotFound ==
    Orphaned /\ val.by = "get_current_user" /\ val.outcome.status = 404

(* The user the issued token names was pending or active when the token    *)
(* was made and is inactive now.                                           *)
DeactivatedSinceIssue ==
    /\ Issued /\ tok.iin \in IINs
    /\ tok.holder \in {"pending", "active"}
    /\ get_user_by_iin(users, tok.iin) /= 0
    /\ users[get_user_by_iin(users, tok.iin)].status = "inactive"

(* C12: once the status of a user is inactive, every request presenting a  *)
(* token made for that user before the deactivation is rejected by         *)
(* get_current_user, get_current_active_user and                           *)
(* get_current_user_from_token.                                            *)
C12_DeactivatedUserIsRejected ==
    (Presented /\ DeactivatedSinceIssue) => val.outcome.status /= 200

(* What the code does (C12): the user is looked up again at every call,    *)
(* but the status is never read; only get_current_active_user rejects, and *)
(* only a user whose is_active flag is off.                                *)
C12_RejectedByFlagOnly ==
    (Presented /\ DeactivatedSinceIssue /\ now <= tok.result.value.exp)
      => (val.outcome.status /= 200
            <=> /\ val.by = "get_current_active_user"
                /\ ~users[get_user_by_iin(users, tok.iin)].is_active)

C12_WitnessStillAccepted ==
    /\ Presented /\ DeactivatedSinceIssue
    /\ val.by = "get_current_active_user"
    /\ val.outcome.status = 200

(* C17: after a signing fault create_access_token returns no unsigned or   *)
(* empty token: it raises, or returns a token signed with the secret that  *)
(* carries the error marker and expires FALLBACK_EXPIRE_MINUTES after its  *)
(* issue, sooner than a regular token; and no validator resolves a user    *)
(* from a token that carries the error marker.                             *)
C17_DegradedTokenIsRejected ==
    /\ (tok.made /\ tok.fault /= "none" /\ tok.result.kind = "return")
         => /\ tok.result.value.key = SECRET_KEY
            /\ tok.result.value.error
            /\ tok.result.value.exp = tok.at + FALLBACK_EXPIRE_MINUTES
            /\ FALLBACK_EXPIRE_MINUTES < ACCESS_TOKEN_EXPIRE_MINUTES
    /\ (Presented /\ tok.result.value.error) => val.outcome.status /= 200

(* What holds of the code (C17): the degraded token is flagged and         *)
(* short-lived, and until it expires it resolves the user like any other.  *)
C17_DegradedTokenIsFlagged ==
    /\ (tok.made /\ tok.fault /= "none" /\ tok.result.kind = "return")
         => /\ tok.result.value.key = SECRET_KEY
            /\ tok.result.value.error
            /\ tok.result.value.exp = tok.at + FALLBACK_EXPIRE_MINUTES
    /\ (Presented /\ tok.result.value.error /\ tok.iin \in IINs
          /\ now <= tok.result.value.exp /\ RowsWithIIN(users, tok.iin) /= {}
          /\ val.by /= "get_current_active_user")
         => val.outcome.status = 200

C17_WitnessAccepted ==
    /\ Presented /\ tok.fault = "encode_fails" /\ tok.result.value.error
    /\ val.by = "get_current_user" /\ val.outcome.status = 200

(* The user the issued token names is stored with status pending. *)
PendingHolder ==
    /\ Issued /\ tok.iin \in IINs
    /\ get_user_by_iin(users, tok.iin) /= 0
    /\ users[get_user_by_iin(users, tok.iin)].status = "pending"

(* C25: while the status of a user is pending, get_current_active_user     *)
(* rejects the token of that user, so that nothing but the completion of   *)
(* the registration is open to it.                                         *)
C25_PendingUserIsRejected ==
    (Presented /\ val.by = "get_current_active_user" /\ PendingHolder)
      => val.outcome.status /= 200

(* What the code does (C25): get_current_active_user reads the is_active    *)
(* flag, which a pending user has on; an unexpired token of a pending user *)
(* passes.                                                                 *)
C25_PendingUserPassesByFlag ==
    (Presented /\ val.by = "get_current_active_user" /\ PendingHolder
       /\ now <= tok.result.value.exp)
      => /\ users[get_user_by_iin(users, tok.iin)].is_active
         /\ val.outcome = Resolved(get_user_by_iin(users, tok.iin))

C25_WitnessPendingAccepted ==
    /\ Presented /\ val.by = "get_current_active_user" /\ PendingHolder
    /\ tok.fault = "none"
    /\ val.outcome.status = 200

----------------------------------------------------------------------------
(* SpecLife: the user lifecycle under concurrent clients, one request      *)
(* each.  The clock stands still, the signing library and the storage      *)
(* layer work: what is left to fail is a commit that meets a unique index. *)

(* A user an administrator created with a password and without an IIN. *)
LegacyUser(email) ==
    [EmailUser(email, "secret", NULL) EXCEPT !.role = "employee"]

(* The tables of SpecLife: the holder of the first IIN unknown, pending or *)
(* registered with the first email; the second email unknown, registered   *)
(* by register_user, or of a user without an IIN.                          *)
LifeTables ==
    { InitialRows(1, life) \o other :
        life \in {"absent", "pending", "active"},
        other \in {<<>>, <<EmailUser(Emails[2], "secret", PseudoSeq[1])>>,
                   <<LegacyUser(Emails[2])>>} }

InitLife ==
    /\ users \in LifeTables
    /\ acct = [c \in Clients |-> IdleRequest]
    /\ requests = <<>>
    /\ call = NoRequestCall
    /\ now = 0
    /\ login = [p \in Procs |-> IdleLogin]
    /\ tok = NoCall
    /\ val = NoVal
    /\ svc = NoSvc
    /\ out = NoOut

(* NCANode's answer for a document validly signed by the holder of iin. *)
SignedBy(iin) == Response("object", "200", "list", "object", "true", "object", iin)

(* The token a client holds for iin: signed by the server, not expired. *)
SessionToken(iin) == Token(iin, ACCESS_TOKEN_EXPIRE_MINUTES, FALSE, SECRET_KEY)

(* What a client may send as its bearer: nothing, or a session token for   *)
(* one of the IINs.                                                        *)
LifeBearers == {{}} \cup { {SessionToken(x)} : x \in {IINSeq[1]} \cup PseudoIINs }

(* The account request that carries the EDS login l. *)
eds_answer(c, l) ==
    IF l.pc = "done"
    THEN [c EXCEPT !.pc = "done", !.eds = l, !.code = l.resp.code,
                   !.uid = l.auth.user_id, !.seen = l.found,
                   !.token = IF l.resp.code = 200 THEN {TokenOf(l.resp)} ELSE {}]
    ELSE [c EXCEPT !.pc = "eds_insert", !.eds = l, !.seen = l.found]

(* POST /auth/eds/login with a document signed by the holder of the first  *)
(* IIN, up to the lookup of the user.                                      *)
EdsLogin(c) ==
    /\ acct[c].pc = "idle"
    /\ LET r == SignedBy(IINSeq[1])
           l == eds_extract(eds_verify(eds_request(IdleLogin, "<signed/>"), r), r)
       IN  acct' = [acct EXCEPT ![c] =
                      eds_answer([@ EXCEPT !.op = "login_with_eds"],
                                 eds_lookup(l, users, now, "none"))]
    /\ UNCHANGED <<users, login, now, tok, val, svc, out, requests, call>>

(* The same login creates the user. *)
EdsInsert(c) ==
    /\ acct[c].pc = "eds_insert"
    /\ LET step == eds_insert(acct[c].eds, users, FALSE, now, "none")
       IN  /\ acct' = [acct EXCEPT ![c] = eds_answer(@, step.login)]
           /\ users' = step.users
    /\ UNCHANGED <<login, now, tok, val, svc, out, requests, call>>

(* POST /auth/email/register. *)
RegisterCheck(c) ==
    /\ acct[c].pc = "idle"
    /\ \E k \in 1..Len(Emails) :
         acct' = [acct EXCEPT ![c] = register_check(@, users, Emails[k])]
    /\ UNCHANGED <<users, login, now, tok, val, svc, out, requests, call>>

RegisterInsert(c) ==
    /\ acct[c].pc = "insert"
    /\ \E pseudo_iin \in PseudoIINs :
         LET step == register_insert(acct[c], users, pseudo_iin, "secret", FALSE, now, "none")
         IN  /\ acct' = [acct EXCEPT ![c] = step.acct]
             /\ users' = step.users
    /\ UNCHANGED <<login, now, tok, val, svc, out, requests, call>>

(* POST /auth/email/login. *)
LoginUser(c) ==
    /\ acct[c].pc = "idle"
    /\ \E k \in 1..Len(Emails), password \in Passwords :
         acct' = [acct EXCEPT ![c] =
                    email_login(@, "login_user", users, Emails[k], password, now, "none")]
    /\ UNCHANGED <<users, login, now, tok, val, svc, out, requests, call>>

(* POST /auth/email/oauth/token. *)
LoginOAuth(c) ==
    /\ acct[c].pc = "idle"
    /\ \E k \in 1..Len(Emails), password \in Passwords :
         acct' = [acct EXCEPT ![c] =
                    email_login(@, "login_oauth", users, Emails[k], password, now, "none")]
    /\ UNCHANGED <<users, login, now, tok, val, svc, out, requests, call>>

(* Either login gives the user a pseudo-IIN. *)
LoginAssign(c) ==
    /\ acct[c].pc = "assign"
    /\ \E pseudo_iin \in PseudoIINs :
         LET step == email_login_assign(acct[c], users, pseudo_iin)
         IN  /\ acct' = [acct EXCEPT ![c] = step.acct]
             /\ users' = step.users
    /\ UNCHANGED <<login, now, tok, val, svc, out, requests, call>>

(* The login signs the token for the pseudo-IIN it has committed. *)
LoginSign(c) ==
    /\ acct[c].pc = "sign"
    /\ acct' = [acct EXCEPT ![c] = email_login_sign(@, now, "none")]
    /\ UNCHANGED <<users, login, now, tok, val, svc, out, requests, call>>

(* PUT /auth/complete: the dependency. *)
CompleteCheck(c) ==
    /\ acct[c].pc = "idle"
    /\ \E bearer \in LifeBearers, k \in 1..Len(Emails) :
         acct' = [acct EXCEPT ![c] =
                    verify_registration_token(@, users, bearer, Emails[k], now)]
    /\ UNCHANGED <<users, login, now, tok, val, svc, out, requests, call>>

(* PUT /auth/complete: the body. *)
CompleteCommit(c) ==
    /\ acct[c].pc = "commit"
    /\ LET step == complete_registration(acct[c], users, now, "none")
       IN  /\ acct' = [acct EXCEPT ![c] = step.acct]
           /\ users' = step.users
    /\ UNCHANGED <<login, now, tok, val, svc, out, requests, call>>

(* PUT /auth/me. *)
UpdateMe(c) ==
    /\ acct[c].pc = "idle"
    /\ \E bearer \in LifeBearers, user_update \in ProfileUpdates :
         LET step == update_me(acct[c], users, bearer, user_update, now)
         IN  /\ acct' = [acct EXCEPT ![c] = step.acct]
             /\ users' = step.users
    /\ UNCHANGED <<login, now, tok, val, svc, out, requests, call>>

(* An administrator's request deactivates a user. *)
AdminDeactivate(c) ==
    /\ acct[c].pc = "idle"
    /\ \E id \in 1..Len(users), clear_flag \in BOOLEAN :
         /\ users[id].status /= "inactive"
         /\ users' = deactivate_user(users, id, clear_flag)
         /\ acct' = [acct EXCEPT ![c] =
                       Answer([@ EXCEPT !.op = "deactivate_user", !.uid = id,
                                        !.seen = users[id].status], 200, "none")]
    /\ UNCHANGED <<login, now, tok, val, svc, out, requests, call>>

NextLife ==
    \/ \E c \in Clients :
         \/ EdsLogin(c)
         \/ EdsInsert(c)
         \/ RegisterCheck(c)
         \/ RegisterInsert(c)
         \/ LoginUser(c)
         \/ LoginOAuth(c)
         \/ LoginAssign(c)
         \/ LoginSign(c)
         \/ CompleteCheck(c)
         \/ CompleteCommit(c)
         \/ UpdateMe(c)
         \/ AdminDeactivate(c)

SpecLife == InitLife /\ [][NextLife]_vars

----------------------------------------------------------------------------
(* Properties of SpecLife. *)

Answered(c) == acct[c].pc = "done"
LoginOps == {"login_with_eds", "login_user", "login_oauth"}

(* C13: no login (EDS, email and password, OAuth) answers with a token for *)
(* a user whose status was inactive when the login read the user.          *)
C13_NoTokenForInactive ==
    \A c \in Clients :
        (Answered(c) /\ acct[c].op \in LoginOps /\ acct[c].seen = "inactive")
          => acct[c].code /= 200 /\ acct[c].token = {}

(* What the code does (C13): the EDS login refuses an inactive user; the   *)
(* email and OAuth logins read the is_active flag and not the status.      *)
C13_EmailLoginChecksFlagOnly ==
    \A c \in Clients :
        (Answered(c) /\ acct[c].seen = "inactive")
          => /\ acct[c].op = "login_with_eds" => acct[c].code = 401 /\ acct[c].token = {}
             /\ (acct[c].op \in {"login_user", "login_oauth"} /\ acct[c].code = 400)
                  => acct[c].token = {}

C13_WitnessInactiveToken ==
    \E c \in Clients :
        /\ Answered(c) /\ acct[c].op = "login_oauth" /\ acct[c].seen = "inactive"
        /\ acct[c].code = 200
        /\ \E token \in acct[c].token : token.iin = users[acct[c].uid].iin
        /\ users[acct[c].uid].status = "inactive"

(* C14: no two distinct users have the same non-null iin. *)
C14_IINUnique ==
    \A j, k \in 1..Len(users) :
        (j /= k /\ users[j].iin /= NULL) => users[j].iin /= users[k].iin

(* A pseudo-IIN that was taken met the unique index. *)
C14_Witness ==
    \E c \in Clients :
        /\ Answered(c) /\ acct[c].op \in {"login_user", "login_oauth"}
        /\ acct[c].code = 500 /\ acct[c].error = "IntegrityError"
        /\ users[acct[c].uid].iin = NULL
        /\ \E k \in 1..Len(users) : users[k].iin \in PseudoIINs

C14_WitnessRegister ==
    \E c, d \in Clients :
        /\ Answered(c) /\ acct[c].op = "register_user" /\ acct[c].code = 500
        /\ Answered(d) /\ acct[d].op = "register_user" /\ acct[d].code = 200
        /\ acct[c].email /= acct[d].email

(* C15: a step never changes an iin that is set. *)
C15_IINNeverChanges ==
    [][\A k \in 1..Len(users) :
          users[k].iin /= NULL => users'[k].iin = users[k].iin]_vars

(* What the code does (C15): an iin that is set changes only when an email *)
(* or OAuth login that read the user without an iin commits its pseudo-IIN *)
(* after another login has committed one; every other step keeps it.       *)
C15_IINChangesOnlyInLoginRace ==
    [][\A k \in 1..Len(users) :
          (users[k].iin /= NULL /\ users'[k].iin /= users[k].iin)
            => \E c \in Clients :
                  /\ acct[c].op \in {"login_user", "login_oauth"}
                  /\ acct[c].pc = "assign" /\ acct[c].uid = k
                  /\ acct[c].seen_iin = NULL
                  /\ acct'[c].pc = "sign"
                  /\ users[k].iin \in PseudoIINs /\ users'[k].iin \in PseudoIINs]_vars

(* Two logins of a user without an iin both got a token, and the token of  *)
(* one of them names an iin nobody has.                                    *)
C15_WitnessOverwritten ==
    \E c, d \in Clients :
        /\ c /= d /\ Answered(c) /\ Answered(d)
        /\ acct[c].uid = acct[d].uid /\ acct[c].code = 200 /\ acct[d].code = 200
        /\ \E token \in acct[c].token : RowsWithIIN(users, token.iin) = {}

(* A user an EDS login created: the iin is a real one, not generated. *)
EDSCreated(row) == row.iin \in IINs

C24_SelfCreatedIsEmployee ==
    [][\A c \in Clients :
          (acct[c].pc \in {"insert", "eds_insert"} /\ Len(users') = Len(users) + 1
             /\ acct'[c] /= acct[c])
            => users'[Len(users')].role = "employee"]_vars

(* What the code does (C24): the EDS login creates an employee, the email  *)
(* registration an administrator.                                          *)
C24_RegisterCreatesAdministrator ==
    [][\A c \in Clients :
          (acct[c].pc \in {"insert", "eds_insert"} /\ Len(users') = Len(users) + 1
             /\ acct'[c] /= acct[c])
            => users'[Len(users')].role =
                 IF acct[c].op = "register_user" THEN "administrator" ELSE "employee"]_vars

C24_WitnessAdministrator ==
    \E c \in Clients :
        /\ Answered(c) /\ acct[c].op = "register_user" /\ acct[c].code = 200
        /\ users[acct[c].uid].role = "administrator"
        /\ users[acct[c].uid].email = acct[c].email

(* Another user than id holds the email. *)
HeldByAnother(db, id, email) ==
    \E k \in (1..Len(db)) \ {id} : db[k].email = email

(* C27: no two users share a non-null email.  The insert of a              *)
(* register_user whose email has been taken since its check fails and      *)
(* adds no user; a complete_registration whose email another user holds    *)
(* fails and leaves the users table, and with it the caller's pending user *)
(* and its profile, as it was.                                             *)
C27_EmailUnique ==
    /\ [](\A i, j \in 1..Len(users) :
            (i /= j /\ users[i].email /= NULL) => users[i].email /= users[j].email)
    /\ [][\A c \in Clients :
            /\ (acct[c].pc = "insert" /\ acct'[c] /= acct[c]
                  /\ EmailTaken(users, acct[c].email))
                 => (acct'[c].code = 500 /\ acct'[c].token = {} /\ users' = users)
            /\ (acct[c].pc = "commit" /\ acct'[c] /= acct[c]
                  /\ HeldByAnother(users, acct[c].uid, acct[c].email))
                 => (acct'[c].code = 500 /\ acct'[c].token = {} /\ users' = users)]_vars

(* Two registrations with the same email raced: one user, one 500; the     *)
(* loser's check had seen no user.                                         *)
C27_Witness ==
    \E c, d \in Clients :
        /\ c /= d /\ Answered(c) /\ Answered(d)
        /\ acct[c].op = "register_user" /\ acct[d].op = "register_user"
        /\ acct[c].email = acct[d].email
        /\ acct[c].code = 200 /\ acct[d].code = 500
        /\ Cardinality({ k \in 1..Len(users) : users[k].email = acct[c].email }) = 1

(* A completion named the email of another user and failed; the caller is  *)
(* still pending without a profile.                                        *)
C27_WitnessCompletion ==
    \E c \in Clients :
        /\ Answered(c) /\ acct[c].op = "complete_registration"
        /\ acct[c].code = 500 /\ acct[c].error = "IntegrityError"
        /\ users[acct[c].uid] = PendingUser(IINSeq[1])
        /\ HeldByAnother(users, acct[c].uid, acct[c].email)

(* Client c is handed its token in this step. *)
GetsToken(c) == acct[c].token = {} /\ acct'[c].token /= {}

(* C28: every token issued by the EDS login, the email registration, the   *)
(* email or OAuth login and the completion of the registration carries a   *)
(* non-null iin claim that is the iin of a user stored when the token is   *)
(* issued.                                                                 *)
C28_TokenNamesStoredUser ==
    [][\A c \in Clients :
          GetsToken(c) =>
            \A token \in acct'[c].token :
                /\ token.iin /= NULL
                /\ \E k \in 1..Len(users') : users'[k].iin = token.iin]_vars

(* What the code does (C28): the iin claim is never null, and it names a   *)
(* stored user except when an email or OAuth login signs for the           *)
(* pseudo-IIN it committed and another login of the same user has since    *)
(* committed another one.                                                  *)
C28_TokenNamesIINTheHandlerRead ==
    [][\A c \in Clients :
          GetsToken(c) =>
            \A token \in acct'[c].token :
                /\ token.iin /= NULL
                /\ \/ \E k \in 1..Len(users') : users'[k].iin = token.iin
                   \/ /\ acct[c].op \in {"login_user", "login_oauth"}
                      /\ acct[c].pc = "sign"
                      /\ token.iin = acct[c].seen_iin
                      /\ users[acct[c].uid].iin \in PseudoIINs \ {token.iin}]_vars

(* A login holds a token for a pseudo-IIN no user has, and the user it     *)
(* logged in has another one.                                              *)
C28_WitnessOrphanAtIssue ==
    \E c, d \in Clients :
        /\ c /= d /\ Answered(c) /\ acct[c].op \in {"login_user", "login_oauth"}
        /\ acct[c].code = 200
        /\ acct[d].pc = "sign" /\ acct[d].uid = acct[c].uid
        /\ \A token \in acct[c].token : get_user_by_iin(users, token.iin) = 0

(* Client c sends its request in this step, to endpoint op. *)
Sends(c, op) == acct[c].pc = "idle" /\ acct'[c].op = op

C29_WitnessLogin ==
    \E c, d \in Clients :
        /\ Answered(c) /\ acct[c].op = "complete_registration" /\ acct[c].code = 200
        /\ Answered(d) /\ acct[d].op = "login_with_eds" /\ acct[d].code = 200
        /\ acct[d].eds.auth.login_status = "AUTHENTICATED"
        /\ acct[d].uid = acct[c].uid

(* Client c has completed the registration of its user with a 200. *)
Completed(c) ==
    Answered(c) /\ acct[c].op = "complete_registration" /\ acct[c].code = 200

(* C30: of the concurrent complete_registration calls for one pending      *)
(* user at most one succeeds, and the stored profile is the one that call  *)
(* supplied.                                                               *)
C30_OneCompletionWins ==
    \A c, d \in Clients :
        (Completed(c) /\ Completed(d) /\ acct[c].uid = acct[d].uid) => c = d

(* What the code does (C30): every call that passed the status check       *)
(* while the user was pending commits, whatever has been committed since,  *)
(* unless its email is held by another user; the commit replaces the       *)
(* profile with its own and the call gets a token.                         *)
C30_EveryCheckedCallCommits ==
    [][\A c \in Clients :
          (acct[c].pc = "commit" /\ acct'[c] /= acct[c]
             /\ ~HeldByAnother(users, acct[c].uid, acct[c].email))
            => /\ acct[c].seen = "pending"
               /\ acct'[c].code = 200 /\ acct'[c].token /= {}
               /\ users'[acct[c].uid].email = acct[c].email
               /\ users'[acct[c].uid].status = "active"]_vars

(* Two calls for the same user both succeeded; the profile stored is the   *)
(* one of the call that committed last, the other call's email is gone.    *)
C30_WitnessBothSucceed ==
    \E c, d \in Clients :
        /\ c /= d /\ Completed(c) /\ Completed(d) /\ acct[c].uid = acct[d].uid
        /\ acct[c].email /= acct[d].email
        /\ users[acct[c].uid].email = acct[d].email

----------------------------------------------------------------------------
(* SpecRequests: the request endpoints.  The callers are four active       *)
(* users, two employees, a supervisor and an administrator; each call      *)
(* carries the session token of its caller.  A request row keeps the       *)
(* columns the endpoints decide on; title, description and urgency are     *)
(* left out.  skip, limit and search take their defaults.                  *)

MaxRequests == 1    \* the requests the table may hold

NoId == 0                            \* None where an id is expected; ids start at 1

StaffUser(iin, role) ==
    [PendingUser(iin) EXCEPT !.status = "active", !.role = role]

StaffTable ==
    << StaffUser(IINSeq[1], "employee"), StaffUser(IINSeq[2], "employee"),
       StaffUser(PseudoSeq[1], "supervisor"), StaffUser(PseudoSeq[2], "administrator") >>

(* The departments table: the names, a department's id is its index. *)
DepartmentNames == <<"IT Support", "Finance">>

(* The request types the callers send, and the callers who create. *)
RequestTypes == {"it"}
Creators == {1, 2}

(* CRUDRequest._get_department_id_for_request_type *)
get_department_id_for_request_type(depts, request_type) ==
    LET department_name ==
            CASE request_type = "financial" -> "Finance"
              [] request_type = "hr" -> "Human Resources"
              [] request_type = "it" -> "IT Support"
              [] request_type = "facility" -> "Facilities"
              [] OTHER -> NULL
        found == { d \in 1..Len(depts) : depts[d] = department_name }
    IN  IF department_name = NULL \/ found = {} THEN NoId
        ELSE CHOOSE d \in found : TRUE

(* CRUDRequest.create_with_owner: the new row, status by column default. *)
create_with_owner(db, depts, request_type, user_id) ==
    Append(db, [request_type |-> request_type, status |-> "new",
                created_by_id |-> user_id, assigned_to_id |-> NoId,
                department_id |-> get_department_id_for_request_type(depts, request_type)])

(* crud.request.get(db, id): the row with that id, or None. *)
crud_request_get(db, id) == IF id \in 1..Len(db) THEN id ELSE NoId

(* crud.request.update(db, db_obj, obj_in): the attributes the body        *)
(* carries are set and committed.                                          *)
crud_request_update(db, id, obj_in) ==
    [db EXCEPT ![id] =
        [@ EXCEPT !.status = IF obj_in.status /= NULL THEN obj_in.status ELSE @,
                  !.assigned_to_id =
                      IF obj_in.assigned_to_id /= NoId THEN obj_in.assigned_to_id ELSE @,
                  !.department_id =
                      IF obj_in.department_id /= NoId THEN obj_in.department_id ELSE @]]

(* CRUDRequest.get_multi_paginated: the ids of the rows that pass every    *)
(* filter the dict holds.                                                  *)
get_multi_paginated(db, filters) ==
    { r \in 1..Len(db) :
        /\ "status" \in DOMAIN filters => db[r].status = filters["status"]
        /\ "request_type" \in DOMAIN filters => db[r].request_type = filters["request_type"]
        /\ "department_id" \in DOMAIN filters => db[r].department_id = filters["department_id"]
        /\ "created_by_id" \in DOMAIN filters => db[r].created_by_id = filters["created_by_id"] }

Listing(code, items) == [code |-> code, items |-> items]

(* create_request: POST /requests/ *)
create_request(db, us, depts, bearer, request_type, t) ==
    LET current_user == get_current_active_user(us, bearer, t)
    IN  IF current_user.status /= 200
        THEN [code |-> current_user.status, requests |-> db]
        ELSE [code |-> 201,
              requests |-> create_with_owner(db, depts, request_type, current_user.user)]

(* read_requests with a created_by_id filter an employee's role honours. *)
read_requests_HonoursFilter(db, us, bearer, status, request_type, department_id, created_by_id, t) ==
    LET current_user == get_current_active_user(us, bearer, t)
        role == us[current_user.user].role
        by_status == IF status /= NULL THEN "status" :> status ELSE <<>>
        by_type == IF request_type /= NULL THEN "request_type" :> request_type ELSE <<>>
        by_dept == IF department_id /= NoId THEN "department_id" :> department_id ELSE <<>>
        by_creator == IF created_by_id /= NoId
                      THEN "created_by_id" :> created_by_id ELSE <<>>
        own == IF role = "employee" THEN "created_by_id" :> current_user.user ELSE <<>>
        filters == by_creator @@ own @@ by_dept @@ by_type @@ by_status
    IN  IF current_user.status /= 200
        THEN Listing(current_user.status, {})
        ELSE Listing(200, get_multi_paginated(db, filters))

(* read_requests: GET /requests/ ; the later assignment to a key of the    *)
(* dict replaces the earlier one.                                          *)
read_requests(db, us, bearer, status, request_type, department_id, created_by_id, t) ==
    LET current_user == get_current_active_user(us, bearer, t)
        role == us[current_user.user].role
        by_status == IF status /= NULL THEN "status" :> status ELSE <<>>
        by_type == IF request_type /= NULL THEN "request_type" :> request_type ELSE <<>>
        by_dept == IF department_id /= NoId THEN "department_id" :> department_id ELSE <<>>
        by_creator == IF created_by_id /= NoId /\ role \in {"administrator", "supervisor"}
                      THEN "created_by_id" :> created_by_id ELSE <<>>
        own == IF role = "employee" THEN "created_by_id" :> current_user.user ELSE <<>>
        filters == own @@ by_creator @@ by_dept @@ by_type @@ by_status
    IN  IF current_user.status /= 200
        THEN Listing(current_user.status, {})
        ELSE Listing(200, get_multi_paginated(db, filters))

(* read_request: GET /requests/{id} ; items holds the request returned. *)
read_request(db, us, bearer, id, t) ==
    LET current_user == get_current_active_user(us, bearer, t)
        request == crud_request_get(db, id)
    IN  CASE current_user.status /= 200 -> Listing(current_user.status, {})
          [] request = NoId -> Listing(404, {})
          [] /\ us[current_user.user].role = "employee"
             /\ db[request].created_by_id /= current_user.user -> Listing(403, {})
          [] OTHER -> Listing(200, {request})

(* read_comments: GET /requests/{id}/comments ; items holds the request    *)
(* whose comments are returned.                                            *)
read_comments(db, us, bearer, id, t) ==
    LET current_user == get_current_active_user(us, bearer, t)
        request == crud_request_get(db, id)
    IN  CASE current_user.status /= 200 -> Listing(current_user.status, {})
          [] request = NoId -> Listing(404, {})
          [] /\ us[current_user.user].role = "employee"
             /\ db[request].created_by_id /= current_user.user -> Listing(403, {})
          [] OTHER -> Listing(200, {id})

(* read_attachments: GET /requests/{id}/attachments ; items holds the      *)
(* request whose attachments are returned.                                 *)
read_attachments(db, us, bearer, id, t) ==
    LET current_user == get_current_active_user(us, bearer, t)
        request == crud_request_get(db, id)
    IN  CASE current_user.status /= 200 -> Listing(current_user.status, {})
          [] request = NoId -> Listing(404, {})
          [] /\ us[current_user.user].role = "employee"
             /\ db[request].created_by_id /= current_user.user -> Listing(403, {})
          [] OTHER -> Listing(200, {id})

(* The bodies of PUT /requests/{id}: RequestUpdate, every field optional. *)
RequestUpdates ==
    { [status |-> "in_process", assigned_to_id |-> NoId, department_id |-> NoId],
      [status |-> "completed", assigned_to_id |-> NoId, department_id |-> NoId],
      [status |-> NULL, assigned_to_id |-> 3, department_id |-> NoId],
      [status |-> NULL, assigned_to_id |-> NoId, department_id |-> 2] }

(* update_request without the checks on an employee's body. *)
update_request_NoFieldChecks(db, us, bearer, id, request_in, t) ==
    LET current_user == get_current_active_user(us, bearer, t)
        request == crud_request_get(db, id)
        Refuse(code) == [code |-> code, requests |-> db]
    IN  CASE current_user.status /= 200 -> Refuse(current_user.status)
          [] request = NoId -> Refuse(404)
          [] /\ us[current_user.user].role = "employee"
             /\ db[request].created_by_id /= current_user.user -> Refuse(403)
          [] OTHER -> [code |-> 200, requests |-> crud_request_update(db, request, request_in)]

(* update_request: PUT /requests/{id} *)
update_request(db, us, bearer, id, request_in, t) ==
    LET current_user == get_current_active_user(us, bearer, t)
        request == crud_request_get(db, id)
        employee == us[current_user.user].role = "employee"
        Refuse(code) == [code |-> code, requests |-> db]
    IN  CASE current_user.status /= 200 -> Refuse(current_user.status)
          [] request = NoId -> Refuse(404)
          [] employee /\ db[request].created_by_id /= current_user.user -> Refuse(403)
          [] /\ employee
             /\ request_in.status /= NULL
             /\ request_in.status = "completed"
             /\ db[request].status /= "completed" -> Refuse(403)
          [] /\ employee
             /\ (request_in.assigned_to_id /= NoId \/ request_in.department_id /= NoId) ->
               Refuse(403)
          [] OTHER -> [code |-> 200, requests |-> crud_request_update(db, request, request_in)]

NoUpdate == [status |-> NULL, assigned_to_id |-> NoId, department_id |-> NoId]

RequestCall(op, u, id, by, body, code, items) ==
    [op |-> op, user |-> u, id |-> id, created_by_id |-> by, request_in |-> body,
     code |-> code, items |-> items]

Staff == 1..Len(StaffTable)
RequestIds == 1..MaxRequests     \* the ids a caller asks for; some are not there yet

InitRequests ==
    /\ users = StaffTable
    /\ login = [p \in Procs |-> IdleLogin]
    /\ now = 0
    /\ tok = NoCall
    /\ val = NoVal
    /\ svc = NoSvc
    /\ out = NoOut
    /\ acct = [c \in Clients |-> IdleRequest]
    /\ requests = <<>>
    /\ call = NoRequestCall

CreateRequest(u) ==
    /\ Len(requests) < MaxRequests
    /\ u \in Creators
    /\ \E request_type \in RequestTypes :
         LET done == create_request(requests, users, DepartmentNames,
                                    {SessionToken(users[u].iin)}, request_type, now)
         IN  /\ requests' = done.requests
             /\ call' = RequestCall("create_request", u, Len(done.requests), NoId,
                                    NoUpdate, done.code, {})
    /\ UNCHANGED <<users, login, now, tok, val, svc, out, acct>>

ReadRequests(u) ==
    /\ \E status \in {NULL, "new"}, created_by_id \in {NoId} \cup Creators :
         LET done == read_requests(requests, users, {SessionToken(users[u].iin)},
                                   status, NULL, NoId, created_by_id, now)
         IN  call' = RequestCall("read_requests", u, NoId, created_by_id, 
                                 [NoUpdate EXCEPT !.status = status], done.code, done.items)
    /\ UNCHANGED <<users, login, now, tok, val, svc, out, acct, requests>>

ReadRequest(u) ==
    /\ \E id \in RequestIds :
         LET done == read_request(requests, users, {SessionToken(users[u].iin)}, id, now)
         IN  call' = RequestCall("read_request", u, id, NoId, NoUpdate, done.code, done.items)
    /\ UNCHANGED <<users, login, now, tok, val, svc, out, acct, requests>>

ReadComments(u) ==
    /\ \E id \in RequestIds :
         LET done == read_comments(requests, users, {SessionToken(users[u].iin)}, id, now)
         IN  call' = RequestCall("read_comments", u, id, NoId, NoUpdate, done.code, done.items)
    /\ UNCHANGED <<users, login, now, tok, val, svc, out, acct, requests>>

ReadAttachments(u) ==
    /\ \E id \in RequestIds :
         LET done == read_attachments(requests, users, {SessionToken(users[u].iin)}, id, now)
         IN  call' = RequestCall("read_attachments", u, id, NoId, NoUpdate, done.code,
                                 done.items)
    /\ UNCHANGED <<users, login, now, tok, val, svc, out, acct, requests>>

UpdateRequest(u) ==
    /\ \E id \in RequestIds, request_in \in RequestUpdates :
         LET done == update_request(requests, users, {SessionToken(users[u].iin)}, id,
                                    request_in, now)
         IN  /\ requests' = done.requests
             /\ call' = RequestCall("update_request", u, id, NoId, request_in, done.code, {})
    /\ UNCHANGED <<users, login, now, tok, val, svc, out, acct>>

NextRequests ==
    \E u \in Staff :
        \/ CreateRequest(u)
        \/ ReadRequests(u)
        \/ ReadRequest(u)
        \/ ReadComments(u)
        \/ ReadAttachments(u)
        \/ UpdateRequest(u)

SpecRequests == InitRequests /\ [][NextRequests]_vars

----------------------------------------------------------------------------
(* Properties of SpecRequests. *)

ReadOps == {"read_request", "read_comments", "read_attachments"}

ByEmployee == call.op /= "none" /\ users[call.user].role = "employee"

CreatedByOther(id) ==
    id \in 1..Len(requests) /\ requests[id].created_by_id /= call.user

(* C21: an employee never reads another user's request.  The list an       *)
(* employee gets holds exactly the employee's own requests that pass the   *)
(* status filter, whatever created_by_id the query names; reading a        *)
(* request created by someone else, its comments or its attachments is     *)
(* answered 403 and returns nothing.                                       *)
C21_EmployeeReadsOnlyOwn ==
    ByEmployee =>
      /\ call.op = "read_requests" =>
           call.items = { r \in 1..Len(requests) :
                            /\ requests[r].created_by_id = call.user
                            /\ call.request_in.status /= NULL =>
                                 requests[r].status = call.request_in.status }
      /\ (call.op \in ReadOps /\ CreatedByOther(call.id)) =>
           (call.code = 403 /\ call.items = {})
      /\ call.op \in ReadOps =>
           \A r \in call.items : requests[r].created_by_id = call.user

(* An employee lists with created_by_id naming a colleague who has a        *)
(* request: the answer is a 200 and the colleague's request is not in it.  *)
C21_Witness ==
    /\ ByEmployee
    /\ call.op = "read_requests"
    /\ call.code = 200
    /\ call.created_by_id \notin {NoId, call.user}
    /\ \E r \in 1..Len(requests) :
          requests[r].created_by_id = call.created_by_id /\ r \notin call.items

(* An employee is refused the comments of a colleague's request. *)
C21_WitnessRefused ==
    /\ ByEmployee
    /\ call.op = "read_comments"
    /\ CreatedByOther(call.id)
    /\ call.code = 403

(* The update_request step of an employee on a request that exists. *)
EmployeeUpdates ==
    /\ call' /= call \/ requests' /= requests
    /\ call'.op = "update_request"
    /\ users[call'.user].role = "employee"
    /\ call'.id \in 1..Len(requests)

(* What an employee may not ask for. *)
Forbidden(request, request_in, user) ==
    \/ request.created_by_id /= user
    \/ request_in.status = "completed" /\ request.status /= "completed"
    \/ request_in.assigned_to_id /= NoId
    \/ request_in.department_id /= NoId

(* C22: no update_request call of an employee moves a request into         *)
(* completed, changes its assigned_to_id or department_id, or modifies a   *)
(* request created by another user; each such call is answered 403 and     *)
(* leaves the requests table as it was.                                    *)
C22_EmployeeUpdateIsRestricted ==
    [][EmployeeUpdates =>
         LET id == call'.id
         IN  /\ Forbidden(requests[id], call'.request_in, call'.user) =>
                  (call'.code = 403 /\ requests' = requests)
             /\ requests'[id].status = "completed" => requests[id].status = "completed"
             /\ requests'[id].assigned_to_id = requests[id].assigned_to_id
             /\ requests'[id].department_id = requests[id].department_id
             /\ requests[id].created_by_id /= call'.user => requests' = requests
             /\ Len(requests') = Len(requests)
             /\ \A r \in 1..Len(requests) : r /= id => requests'[r] = requests[r]]_vars

(* An employee asked to complete the employee's own open request and was   *)
(* refused.                                                                *)
C22_Witness ==
    /\ ByEmployee
    /\ call.op = "update_request"
    /\ call.id \in 1..Len(requests)
    /\ requests[call.id].created_by_id = call.user
    /\ call.request_in.status = "completed"
    /\ call.code = 403
    /\ requests[call.id].status /= "completed"

(* An employee's own request was moved to in_process by the employee. *)
C22_WitnessAllowed ==
    /\ ByEmployee
    /\ call.op = "update_request"
    /\ call.code = 200
    /\ requests[call.id].status = "in_process"

====
